---- MODULE Spec2Model ----
(***************************************************************************)
(* Verification model of wp_md_wd, src/code/deepwiki2markdown.py:          *)
(*   - convert_flowchart_svg_to_mermaid_text (FlowSpec)                    *)
(*   - convert_sequence_svg_to_mermaid_text  (SeqSpec)                     *)
(*   - the page normalisation of deepwiki2markdown (NormSpec)              *)
(*   - convert_statediagram_svg_to_mermaid_text (StateSpec)                *)
(*   - process_node (DomSpec)                                              *)
(*   - successive calls of the converters (CallSpec)                       *)
(*   - the browser and the page loop of deepwiki2markdown (DriverSpec)     *)
(*                                                                         *)
(* Strings whose inner structure the code inspects (element ids, label     *)
(* texts, page text) are sequences of atoms.  An atom is one character,    *)
(* except "flowchart", which stands for that literal word; no other atom   *)
(* contains any of its letters, so the regular expressions of the source   *)
(* act on atom sequences exactly as they act on the strings.               *)
(***************************************************************************)
EXTENDS Integers, Sequences, FiniteSets, TLC

VARIABLES
    \* ---- convert_flowchart_svg_to_mermaid_text ----
    fpc,            \* position in the function: the numbered steps 1..6 of the source
    nodeElems,      \* svg_content.select('g.node.default'), document order
    clusterElems,   \* svg_content.select('g.cluster'), document order
    linkPaths,      \* ids of svg_content.select('path.flowchart-link'), document order
    nodes,          \* dict base_id -> text, as a sequence of [key, val] in insertion order
    id_map,         \* dict original_id -> base_id
    clusters,       \* dict cluster_id -> {title, nodes, children, rect}
    edges,          \* list of resolved edges
    mermaid,        \* list of emitted lines
    \* ---- convert_sequence_svg_to_mermaid_text ----
    spc,            \* position in the function
    actorGroups,    \* the <g> elements holding an actor rect and a text, document order
    textElems,      \* all <text> elements of the svg, in document order
    msgElems,       \* the line/path elements of class message, document order
    participants,   \* dict actor_name -> x, as a sequence of [key, val]
    actor_labels,   \* set of the text elements that name an actor
    texts,          \* list of parsed text labels
    used_texts,     \* set of consumed text elements
    elements,       \* list of (vertical position, line)
    seq_mermaid,    \* list of emitted lines
    \* ---- page normalisation in deepwiki2markdown ----
    npc,            \* position: "joined" or "normalised"
    joined,         \* ''.join(process_node(child) ...), the text before normalisation
    markdown,       \* the variable markdown
    \* ---- convert_statediagram_svg_to_mermaid_text ----
    stpc,           \* position in the function; "raised" when an exception left it
    stNodeElems,    \* soup.find_all('g', class_='node'), document order
    stPathElems,    \* soup.find_all('path', class_='transition'), document order
    stLabelElems,   \* soup.find_all('g', class_='edgeLabel'), document order
    node_data,      \* list of {id, state, x, y}
    edge_data,      \* list of {start, end, label}
    matched_edges,  \* list of {from, to, label}
    mermaid_lines,  \* list of emitted lines
    \* ---- process_node ----
    dpc,            \* position: "start", "try", "done" or "raised"
    dom,            \* the node handed to process_node
    result_md,      \* the returned text
    \* ---- deepwiki2markdown: the browser and the loop over the pages ----
    wpc,            \* position in the function
    sidebar,        \* the li elements of the sidebar: TRUE for one with a link
    urls,           \* the number of entries of the list urls
    page,           \* the index of the page the loop is at, from 1
    saved,          \* the indices of the pages whose file is written
    exc,            \* the step whose exception is in flight, "none" without one
    caught,         \* the step whose exception the except clause handled
    quits,          \* the number of calls of driver.quit()
    propagated      \* an exception left the function

flowVars == <<fpc, nodeElems, clusterElems, linkPaths, nodes, id_map, clusters, edges, mermaid>>
seqVars  == <<spc, actorGroups, textElems, msgElems, participants, actor_labels, texts, used_texts,
              elements, seq_mermaid>>
normVars == <<npc, joined, markdown>>
stateVars == <<stpc, stNodeElems, stPathElems, stLabelElems, node_data, edge_data,
               matched_edges, mermaid_lines>>
domVars  == <<dpc, dom, result_md>>
driverVars == <<wpc, sidebar, urls, page, saved, exc, caught, quits, propagated>>
vars     == <<flowVars, seqVars, normVars, stateVars, domVars, driverVars>>

(***************************************************************************)
(* Bounds of the model                                                     *)
(***************************************************************************)
MaxClusters == 3
MaxNodeElems == 2
MaxLinkPaths == 2
MaxActors == 3
MaxTexts == 2
MaxMsgs == 2
MaxTextLen == 7
MaxStNodes == 2
MaxStPaths == 2
MaxStLabels == 2
MaxPreChildren == 2
MaxChildren == 2
MaxSidebar == 3

(***************************************************************************)
(* Generic helpers                                                         *)
(***************************************************************************)
\* An absent attribute or element, among values that are atom sequences
Absent == <<"#absent">>

Range(s) == {s[i] : i \in 1..Len(s)}

\* All sequences over S of length at most n
SeqUpTo(S, n) == UNION {[1..k -> S] : k \in 0..n}

\* The element lists of a document: no two elements carry the same id attribute
ElemLists(S, n) == {s \in SeqUpTo(S, n) : \A i, j \in 1..Len(s) : i # j => s[i].id # s[j].id}

Abs(x) == IF x < 0 THEN -x ELSE x

\* Python: s.startswith(p)
StartsWith(s, p) == Len(s) >= Len(p) /\ SubSeq(s, 1, Len(p)) = p

\* Python dict: key in d
DictHas(d, k) == \E i \in 1..Len(d) : d[i].key = k

\* Python dict: d[k]
DictGet(d, k) == d[CHOOSE i \in 1..Len(d) : d[i].key = k].val

\* Python dict: d[k] = v  (an existing key keeps its place, a new key is appended)
DictSet(d, k, v) ==
    IF DictHas(d, k)
    THEN [i \in 1..Len(d) |-> IF d[i].key = k THEN [key |-> k, val |-> v] ELSE d[i]]
    ELSE Append(d, [key |-> k, val |-> v])

\* Python dict: list(d.keys())
DictKeys(d) == [i \in 1..Len(d) |-> d[i].key]

\* The 650 decimal digits outside ASCII (Unicode 14.0, category Nd), each
\* named by its code point: "#U+0663" is the ARABIC-INDIC DIGIT THREE
NonAsciiDigits ==
    { "#U+0660", "#U+0661", "#U+0662", "#U+0663", "#U+0664", "#U+0665", "#U+0666",
       "#U+0667", "#U+0668", "#U+0669", "#U+06F0", "#U+06F1", "#U+06F2", "#U+06F3",
       "#U+06F4", "#U+06F5", "#U+06F6", "#U+06F7", "#U+06F8", "#U+06F9", "#U+07C0",
       "#U+07C1", "#U+07C2", "#U+07C3", "#U+07C4", "#U+07C5", "#U+07C6", "#U+07C7",
       "#U+07C8", "#U+07C9", "#U+0966", "#U+0967", "#U+0968", "#U+0969", "#U+096A",
       "#U+096B", "#U+096C", "#U+096D", "#U+096E", "#U+096F", "#U+09E6", "#U+09E7",
       "#U+09E8", "#U+09E9", "#U+09EA", "#U+09EB", "#U+09EC", "#U+09ED", "#U+09EE",
       "#U+09EF", "#U+0A66", "#U+0A67", "#U+0A68", "#U+0A69", "#U+0A6A", "#U+0A6B",
       "#U+0A6C", "#U+0A6D", "#U+0A6E", "#U+0A6F", "#U+0AE6", "#U+0AE7", "#U+0AE8",
       "#U+0AE9", "#U+0AEA", "#U+0AEB", "#U+0AEC", "#U+0AED", "#U+0AEE", "#U+0AEF",
       "#U+0B66", "#U+0B67", "#U+0B68", "#U+0B69", "#U+0B6A", "#U+0B6B", "#U+0B6C",
       "#U+0B6D", "#U+0B6E", "#U+0B6F", "#U+0BE6", "#U+0BE7", "#U+0BE8", "#U+0BE9",
       "#U+0BEA", "#U+0BEB", "#U+0BEC", "#U+0BED", "#U+0BEE", "#U+0BEF", "#U+0C66",
       "#U+0C67", "#U+0C68", "#U+0C69", "#U+0C6A", "#U+0C6B", "#U+0C6C", "#U+0C6D",
       "#U+0C6E", "#U+0C6F", "#U+0CE6", "#U+0CE7", "#U+0CE8", "#U+0CE9", "#U+0CEA",
       "#U+0CEB", "#U+0CEC", "#U+0CED", "#U+0CEE", "#U+0CEF", "#U+0D66", "#U+0D67",
       "#U+0D68", "#U+0D69", "#U+0D6A", "#U+0D6B", "#U+0D6C", "#U+0D6D", "#U+0D6E",
       "#U+0D6F", "#U+0DE6", "#U+0DE7", "#U+0DE8", "#U+0DE9", "#U+0DEA", "#U+0DEB",
       "#U+0DEC", "#U+0DED", "#U+0DEE", "#U+0DEF", "#U+0E50", "#U+0E51", "#U+0E52",
       "#U+0E53", "#U+0E54", "#U+0E55", "#U+0E56", "#U+0E57", "#U+0E58", "#U+0E59",
       "#U+0ED0", "#U+0ED1", "#U+0ED2", "#U+0ED3", "#U+0ED4", "#U+0ED5", "#U+0ED6",
       "#U+0ED7", "#U+0ED8", "#U+0ED9", "#U+0F20", "#U+0F21", "#U+0F22", "#U+0F23",
       "#U+0F24", "#U+0F25", "#U+0F26", "#U+0F27", "#U+0F28", "#U+0F29", "#U+1040",
       "#U+1041", "#U+1042", "#U+1043", "#U+1044", "#U+1045", "#U+1046", "#U+1047",
       "#U+1048", "#U+1049", "#U+1090", "#U+1091", "#U+1092", "#U+1093", "#U+1094",
       "#U+1095", "#U+1096", "#U+1097", "#U+1098", "#U+1099", "#U+17E0", "#U+17E1",
       "#U+17E2", "#U+17E3", "#U+17E4", "#U+17E5", "#U+17E6", "#U+17E7", "#U+17E8",
       "#U+17E9", "#U+1810", "#U+1811", "#U+1812", "#U+1813", "#U+1814", "#U+1815",
       "#U+1816", "#U+1817", "#U+1818", "#U+1819", "#U+1946", "#U+1947", "#U+1948",
       "#U+1949", "#U+194A", "#U+194B", "#U+194C", "#U+194D", "#U+194E", "#U+194F",
       "#U+19D0", "#U+19D1", "#U+19D2", "#U+19D3", "#U+19D4", "#U+19D5", "#U+19D6",
       "#U+19D7", "#U+19D8", "#U+19D9", "#U+1A80", "#U+1A81", "#U+1A82", "#U+1A83",
       "#U+1A84", "#U+1A85", "#U+1A86", "#U+1A87", "#U+1A88", "#U+1A89", "#U+1A90",
       "#U+1A91", "#U+1A92", "#U+1A93", "#U+1A94", "#U+1A95", "#U+1A96", "#U+1A97",
       "#U+1A98", "#U+1A99", "#U+1B50", "#U+1B51", "#U+1B52", "#U+1B53", "#U+1B54",
       "#U+1B55", "#U+1B56", "#U+1B57", "#U+1B58", "#U+1B59", "#U+1BB0", "#U+1BB1",
       "#U+1BB2", "#U+1BB3", "#U+1BB4", "#U+1BB5", "#U+1BB6", "#U+1BB7", "#U+1BB8",
       "#U+1BB9", "#U+1C40", "#U+1C41", "#U+1C42", "#U+1C43", "#U+1C44", "#U+1C45",
       "#U+1C46", "#U+1C47", "#U+1C48", "#U+1C49", "#U+1C50", "#U+1C51", "#U+1C52",
       "#U+1C53", "#U+1C54", "#U+1C55", "#U+1C56", "#U+1C57", "#U+1C58", "#U+1C59",
       "#U+A620", "#U+A621", "#U+A622", "#U+A623", "#U+A624", "#U+A625", "#U+A626",
       "#U+A627", "#U+A628", "#U+A629", "#U+A8D0", "#U+A8D1", "#U+A8D2", "#U+A8D3",
       "#U+A8D4", "#U+A8D5", "#U+A8D6", "#U+A8D7", "#U+A8D8", "#U+A8D9", "#U+A900",
       "#U+A901", "#U+A902", "#U+A903", "#U+A904", "#U+A905", "#U+A906", "#U+A907",
       "#U+A908", "#U+A909", "#U+A9D0", "#U+A9D1", "#U+A9D2", "#U+A9D3", "#U+A9D4",
       "#U+A9D5", "#U+A9D6", "#U+A9D7", "#U+A9D8", "#U+A9D9", "#U+A9F0", "#U+A9F1",
       "#U+A9F2", "#U+A9F3", "#U+A9F4", "#U+A9F5", "#U+A9F6", "#U+A9F7", "#U+A9F8",
       "#U+A9F9", "#U+AA50", "#U+AA51", "#U+AA52", "#U+AA53", "#U+AA54", "#U+AA55",
       "#U+AA56", "#U+AA57", "#U+AA58", "#U+AA59", "#U+ABF0", "#U+ABF1", "#U+ABF2",
       "#U+ABF3", "#U+ABF4", "#U+ABF5", "#U+ABF6", "#U+ABF7", "#U+ABF8", "#U+ABF9",
       "#U+FF10", "#U+FF11", "#U+FF12", "#U+FF13", "#U+FF14", "#U+FF15", "#U+FF16",
       "#U+FF17", "#U+FF18", "#U+FF19", "#U+104A0", "#U+104A1", "#U+104A2", "#U+104A3",
       "#U+104A4", "#U+104A5", "#U+104A6", "#U+104A7", "#U+104A8", "#U+104A9",
       "#U+10D30", "#U+10D31", "#U+10D32", "#U+10D33", "#U+10D34", "#U+10D35",
       "#U+10D36", "#U+10D37", "#U+10D38", "#U+10D39", "#U+11066", "#U+11067",
       "#U+11068", "#U+11069", "#U+1106A", "#U+1106B", "#U+1106C", "#U+1106D",
       "#U+1106E", "#U+1106F", "#U+110F0", "#U+110F1", "#U+110F2", "#U+110F3",
       "#U+110F4", "#U+110F5", "#U+110F6", "#U+110F7", "#U+110F8", "#U+110F9",
       "#U+11136", "#U+11137", "#U+11138", "#U+11139", "#U+1113A", "#U+1113B",
       "#U+1113C", "#U+1113D", "#U+1113E", "#U+1113F", "#U+111D0", "#U+111D1",
       "#U+111D2", "#U+111D3", "#U+111D4", "#U+111D5", "#U+111D6", "#U+111D7",
       "#U+111D8", "#U+111D9", "#U+112F0", "#U+112F1", "#U+112F2", "#U+112F3",
       "#U+112F4", "#U+112F5", "#U+112F6", "#U+112F7", "#U+112F8", "#U+112F9",
       "#U+11450", "#U+11451", "#U+11452", "#U+11453", "#U+11454", "#U+11455",
       "#U+11456", "#U+11457", "#U+11458", "#U+11459", "#U+114D0", "#U+114D1",
       "#U+114D2", "#U+114D3", "#U+114D4", "#U+114D5", "#U+114D6", "#U+114D7",
       "#U+114D8", "#U+114D9", "#U+11650", "#U+11651", "#U+11652", "#U+11653",
       "#U+11654", "#U+11655", "#U+11656", "#U+11657", "#U+11658", "#U+11659",
       "#U+116C0", "#U+116C1", "#U+116C2", "#U+116C3", "#U+116C4", "#U+116C5",
       "#U+116C6", "#U+116C7", "#U+116C8", "#U+116C9", "#U+11730", "#U+11731",
       "#U+11732", "#U+11733", "#U+11734", "#U+11735", "#U+11736", "#U+11737",
       "#U+11738", "#U+11739", "#U+118E0", "#U+118E1", "#U+118E2", "#U+118E3",
       "#U+118E4", "#U+118E5", "#U+118E6", "#U+118E7", "#U+118E8", "#U+118E9",
       "#U+11950", "#U+11951", "#U+11952", "#U+11953", "#U+11954", "#U+11955",
       "#U+11956", "#U+11957", "#U+11958", "#U+11959", "#U+11C50", "#U+11C51",
       "#U+11C52", "#U+11C53", "#U+11C54", "#U+11C55", "#U+11C56", "#U+11C57",
       "#U+11C58", "#U+11C59", "#U+11D50", "#U+11D51", "#U+11D52", "#U+11D53",
       "#U+11D54", "#U+11D55", "#U+11D56", "#U+11D57", "#U+11D58", "#U+11D59",
       "#U+11DA0", "#U+11DA1", "#U+11DA2", "#U+11DA3", "#U+11DA4", "#U+11DA5",
       "#U+11DA6", "#U+11DA7", "#U+11DA8", "#U+11DA9", "#U+16A60", "#U+16A61",
       "#U+16A62", "#U+16A63", "#U+16A64", "#U+16A65", "#U+16A66", "#U+16A67",
       "#U+16A68", "#U+16A69", "#U+16AC0", "#U+16AC1", "#U+16AC2", "#U+16AC3",
       "#U+16AC4", "#U+16AC5", "#U+16AC6", "#U+16AC7", "#U+16AC8", "#U+16AC9",
       "#U+16B50", "#U+16B51", "#U+16B52", "#U+16B53", "#U+16B54", "#U+16B55",
       "#U+16B56", "#U+16B57", "#U+16B58", "#U+16B59", "#U+1D7CE", "#U+1D7CF",
       "#U+1D7D0", "#U+1D7D1", "#U+1D7D2", "#U+1D7D3", "#U+1D7D4", "#U+1D7D5",
       "#U+1D7D6", "#U+1D7D7", "#U+1D7D8", "#U+1D7D9", "#U+1D7DA", "#U+1D7DB",
       "#U+1D7DC", "#U+1D7DD", "#U+1D7DE", "#U+1D7DF", "#U+1D7E0", "#U+1D7E1",
       "#U+1D7E2", "#U+1D7E3", "#U+1D7E4", "#U+1D7E5", "#U+1D7E6", "#U+1D7E7",
       "#U+1D7E8", "#U+1D7E9", "#U+1D7EA", "#U+1D7EB", "#U+1D7EC", "#U+1D7ED",
       "#U+1D7EE", "#U+1D7EF", "#U+1D7F0", "#U+1D7F1", "#U+1D7F2", "#U+1D7F3",
       "#U+1D7F4", "#U+1D7F5", "#U+1D7F6", "#U+1D7F7", "#U+1D7F8", "#U+1D7F9",
       "#U+1D7FA", "#U+1D7FB", "#U+1D7FC", "#U+1D7FD", "#U+1D7FE", "#U+1D7FF",
       "#U+1E140", "#U+1E141", "#U+1E142", "#U+1E143", "#U+1E144", "#U+1E145",
       "#U+1E146", "#U+1E147", "#U+1E148", "#U+1E149", "#U+1E2F0", "#U+1E2F1",
       "#U+1E2F2", "#U+1E2F3", "#U+1E2F4", "#U+1E2F5", "#U+1E2F6", "#U+1E2F7",
       "#U+1E2F8", "#U+1E2F9", "#U+1E950", "#U+1E951", "#U+1E952", "#U+1E953",
       "#U+1E954", "#U+1E955", "#U+1E956", "#U+1E957", "#U+1E958", "#U+1E959",
       "#U+1FBF0", "#U+1FBF1", "#U+1FBF2", "#U+1FBF3", "#U+1FBF4", "#U+1FBF5",
       "#U+1FBF6", "#U+1FBF7", "#U+1FBF8", "#U+1FBF9" }

\* re: the characters \d of a str pattern matches, every decimal digit
IsDigit(a) == a \in {"0", "1", "2", "3", "4", "5", "6", "7", "8", "9"} \cup NonAsciiDigits

NL == "\n"

\* White space outside the four ASCII characters below, named by its code
\* point: vertical tab, form feed, the separators 1C-1F, NEL, the no-break
\* space and the Unicode spaces and separators
OtherSpaces ==
    { "\f", "#U+000B", "#U+001C", "#U+001D", "#U+001E", "#U+001F", "#U+0085", "#U+00A0",
      "#U+1680", "#U+2000", "#U+2001", "#U+2002", "#U+2003", "#U+2004", "#U+2005",
      "#U+2006", "#U+2007", "#U+2008", "#U+2009", "#U+200A", "#U+2028", "#U+2029",
      "#U+202F", "#U+205F", "#U+3000" }

\* The characters str.strip() removes and str.split() splits at: those for
\* which str.isspace() holds
IsSpace(a) == a \in {" ", NL, "\t", "\r"} \cup OtherSpaces

\* str.lstrip()
RECURSIVE LStrip(_)
LStrip(s) == IF s # <<>> /\ IsSpace(Head(s)) THEN LStrip(Tail(s)) ELSE s

\* str.rstrip()
RECURSIVE RStrip(_)
RStrip(s) ==
    IF s # <<>> /\ IsSpace(s[Len(s)]) THEN RStrip(SubSeq(s, 1, Len(s) - 1)) ELSE s

\* Mutant of Strip: only the leading white space is removed
StripLeftOnly(s) == LStrip(s)

\* markdown.strip()
Strip(s) == RStrip(LStrip(s))

\* Length of the run of digits of s that ends at position e
RECURSIVE DigitRunBefore(_, _)
DigitRunBefore(s, e) ==
    IF e < 1 \/ ~IsDigit(s[e]) THEN 0 ELSE 1 + DigitRunBefore(s, e - 1)

\* re: where a pattern that ends in \d+$ ends its match: $ matches at the end
\* of the string and before a newline that ends the string
DigitsEnd(s) == IF s # <<>> /\ s[Len(s)] = NL THEN Len(s) - 1 ELSE Len(s)

\* Number of digits that \d+$ matches in s
DigitSuffixLen(s) == DigitRunBefore(s, DigitsEnd(s))

\* Python: s.split(sep) for a one-character separator
RECURSIVE SplitAcc(_, _, _)
SplitAcc(s, sep, cur) ==
    IF s = <<>> THEN <<cur>>
    ELSE IF Head(s) = sep THEN <<cur>> \o SplitAcc(Tail(s), sep, <<>>)
    ELSE SplitAcc(Tail(s), sep, Append(cur, Head(s)))

Split(s, sep) == SplitAcc(s, sep, <<>>)

\* Python: sep.join(parts)
RECURSIVE Join(_, _)
Join(parts, sep) ==
    IF parts = <<>> THEN <<>>
    ELSE IF Len(parts) = 1 THEN parts[1]
    ELSE parts[1] \o <<sep>> \o Join(Tail(parts), sep)

\* Python: text.replace('"', "'")
ReplaceQuote(s) == [i \in 1..Len(s) |-> IF s[i] = "\"" THEN "'" ELSE s[i]]

\* Python: sorted(xs, key=...), on a list of [k |-> key, v |-> item].  The sort is
\* stable: an item goes after every item already placed whose key is not larger.
RECURSIVE InsertByKey(_, _)
InsertByKey(sorted, x) ==
    IF sorted = <<>> THEN <<x>>
    ELSE IF x.k < Head(sorted).k THEN <<x>> \o sorted
    ELSE <<Head(sorted)>> \o InsertByKey(Tail(sorted), x)

RECURSIVE SortedByKey(_)
SortedByKey(xs) ==
    IF xs = <<>> THEN <<>>
    ELSE InsertByKey(SortedByKey(SubSeq(xs, 1, Len(xs) - 1)), xs[Len(xs)])

(***************************************************************************)
(* convert_flowchart_svg_to_mermaid_text: the elements read from the svg   *)
(*                                                                         *)
(* node element    [id, label, transform]                                  *)
(*   id        the id attribute ('' when absent)                           *)
(*   label     text of the .label element, Absent when there is none       *)
(*   transform [kind, x, y]: kind "translate" for 'translate(x, y)' and    *)
(*             "none" for an absent attribute or any other text            *)
(* cluster element [id, title, rect]                                       *)
(*   id        the id attribute, Absent when there is none                 *)
(*   title     text of the .cluster-label element, Absent without one      *)
(*   rect      [kind, x, y, w, h]: kind "rect" for a rect with numeric     *)
(*             attributes, "unparsable" for one float() rejects, "none"    *)
(*             when the cluster holds no rect                              *)
(***************************************************************************)
FlowchartPrefix == <<"flowchart", "-">>
LinkPrefix == <<"L", "_">>

\* Index just past the longest run of atoms other than "-" that starts at p
RECURSIVE RunEnd(_, _)
RunEnd(s, p) == IF p > Len(s) \/ s[p] = "-" THEN p ELSE RunEnd(s, p + 1)

\* The pattern flowchart-([^-]+)(-\d+)?$ matches s from position p on: the
\* run of [^-]+ reaches the end of s, or it is followed by "-" and digits up
\* to the place where $ matches
BaseIdMatchAt(s, p) ==
    /\ p + 1 <= Len(s)
    /\ s[p] = "flowchart"
    /\ s[p + 1] = "-"
    /\ LET q == RunEnd(s, p + 2) IN
         /\ q > p + 2
         /\ \/ q = Len(s) + 1
            \/ /\ q < DigitsEnd(s)
               /\ \A i \in (q + 1)..DigitsEnd(s) : IsDigit(s[i])

\* re.sub(r'flowchart-([^-]+)(-\d+)?$', r'\1', original_id): what follows the
\* match, a newline that ends the id, is kept
BaseId(original_id) ==
    LET s == original_id
        M == {p \in 1..Len(s) : BaseIdMatchAt(s, p)}
    IN  IF M = {} THEN s
        ELSE LET p == CHOOSE m \in M : \A n \in M : m <= n
                 q == RunEnd(s, p + 2)
                 after == IF q = Len(s) + 1 THEN <<>>
                          ELSE SubSeq(s, DigitsEnd(s) + 1, Len(s))
             IN  SubSeq(s, 1, p - 1) \o SubSeq(s, p + 2, q - 1) \o after

\* label.get_text(strip=True).replace('"', "'"), '' without a label
NodeText(e) == IF e.label = Absent THEN <<>> ELSE ReplaceQuote(Strip(e.label))

\* Step 1, the loop over the node elements: returns [nodes, id_map]
RECURSIVE ExtractNodesLoop(_, _, _, _)
ExtractNodesLoop(elems, i, ns, im) ==
    IF i > Len(elems) THEN [nodes |-> ns, id_map |-> im]
    ELSE LET e == elems[i] IN
         IF ~StartsWith(e.id, FlowchartPrefix)
         THEN ExtractNodesLoop(elems, i + 1, ns, im)
         ELSE ExtractNodesLoop(elems, i + 1,
                               DictSet(ns, BaseId(e.id), NodeText(e)),
                               DictSet(im, e.id, BaseId(e.id)))

\* f'cluster_{len(clusters)+1}'
DefaultClusterId(n) == <<"cluster_", <<"0", "1", "2", "3", "4", "5", "6", "7", "8", "9">>[n + 1]>>

UntitledCluster == <<"Untitled Cluster">>

\* Lines 57-62: get_text(strip=True).replace('"', "'"), or the default title
ClusterTitle(e) ==
    IF e.title = Absent THEN UntitledCluster ELSE ReplaceQuote(Strip(e.title))

\* Step 2, the loop over the cluster elements
RECURSIVE ExtractClustersLoop(_, _, _)
ExtractClustersLoop(elems, i, cs) ==
    IF i > Len(elems) THEN cs
    ELSE LET e == elems[i]
             cluster_id == IF e.id = Absent THEN DefaultClusterId(Len(cs) + 1) ELSE e.id
         IN  IF e.rect.kind # "rect"
             THEN ExtractClustersLoop(elems, i + 1, cs)
             ELSE ExtractClustersLoop(elems, i + 1,
                    DictSet(cs, cluster_id,
                            [title    |-> ClusterTitle(e),
                             nodes    |-> <<>>,
                             children |-> <<>>,
                             rect     |-> <<e.rect.x, e.rect.y,
                                            e.rect.x + e.rect.w, e.rect.y + e.rect.h>>]))

\* The test of lines 96-97: rectangle a holds rectangle b (equal rectangles included)
Contains(a, b) == a[1] <= b[1] /\ a[2] <= b[2] /\ a[3] >= b[3] /\ a[4] >= b[4]

\* Mutant of IsDirectChild: the two containment tests of lines 105-108 with the
\* roles of the clusters exchanged
IsDirectChildSwapped(cs, i, j) ==
    ~ \E k \in 1..Len(cs) :
        /\ k # i
        /\ k # j
        /\ Contains(cs[j].val.rect, cs[k].val.rect)
        /\ Contains(cs[k].val.rect, cs[i].val.rect)

\* Lines 99-110: no third cluster k lies between cluster i and cluster j
IsDirectChild(cs, i, j) ==
    ~ \E k \in 1..Len(cs) :
        /\ k # i
        /\ k # j
        /\ Contains(cs[k].val.rect, cs[j].val.rect)
        /\ Contains(cs[i].val.rect, cs[k].val.rect)

\* Lines 88-113 for one i: the ids appended to clusters[cluster_ids[i]]['children']
RECURSIVE ChildrenLoop(_, _, _)
ChildrenLoop(cs, i, j) ==
    IF j > Len(cs) THEN <<>>
    ELSE (IF j # i /\ Contains(cs[i].val.rect, cs[j].val.rect) /\ IsDirectChild(cs, i, j)
          THEN <<cs[j].key>> ELSE <<>>)
         \o ChildrenLoop(cs, i, j + 1)

\* Step 3
NestClusters(cs) ==
    [i \in 1..Len(cs) |->
        [key |-> cs[i].key,
         val |-> [cs[i].val EXCEPT !.children = cs[i].val.children \o ChildrenLoop(cs, i, 1)]]]

\* Line 119: the sort key of step 4
Area(rect) == (rect[3] - rect[1]) * (rect[4] - rect[2])

\* Lines 117-120: the cluster ids by ascending area
SortedClusterIds(cs) ==
    LET s == SortedByKey([i \in 1..Len(cs) |-> [k |-> Area(cs[i].val.rect), v |-> cs[i].key]])
    IN  [i \in 1..Len(s) |-> s[i].v]

\* Lines 140-149: the coordinates of translate(x, y), <<>> when the pattern finds
\* none; [\d.]+ admits no sign
NodePos(e) ==
    IF e.transform.kind = "translate" /\ e.transform.x >= 0 /\ e.transform.y >= 0
    THEN <<e.transform.x, e.transform.y>>
    ELSE <<>>

\* Lines 131-134
AlreadyClustered(cs, im, cluster_id, e) ==
    \E c \in Range(DictGet(cs, cluster_id).children) :
        DictGet(im, e.id) \in Range(DictGet(cs, c).nodes)

\* Lines 126-153: the body of the inner loop for cluster cluster_id and element e
AssignNode(cs, im, cluster_id, e) ==
    IF ~DictHas(im, e.id) THEN cs
    ELSE IF AlreadyClustered(cs, im, cluster_id, e) THEN cs
    ELSE IF NodePos(e) = <<>> THEN cs
    ELSE LET data == DictGet(cs, cluster_id)
             r == data.rect
             pos == NodePos(e)
         IN  IF r[1] <= pos[1] /\ pos[1] <= r[3] /\ r[2] <= pos[2] /\ pos[2] <= r[4]
             THEN DictSet(cs, cluster_id,
                          [data EXCEPT !.nodes = Append(data.nodes, DictGet(im, e.id))])
             ELSE cs

RECURSIVE AssignNodesInner(_, _, _, _, _)
AssignNodesInner(cs, im, cluster_id, elems, n) ==
    IF n > Len(elems) THEN cs
    ELSE AssignNodesInner(AssignNode(cs, im, cluster_id, elems[n]), im, cluster_id, elems, n + 1)

\* Step 4, the loop over sorted_clusters
RECURSIVE AssignNodesLoop(_, _, _, _, _)
AssignNodesLoop(cs, im, order, c, elems) ==
    IF c > Len(order) THEN cs
    ELSE AssignNodesLoop(AssignNodesInner(cs, im, order[c], elems, 1), im, order, c + 1, elems)

\* re.sub(r'_\d+$', '', s): a newline that ends s stays
StripNumSuffix(s) ==
    LET e == DigitsEnd(s)
        d == DigitSuffixLen(s)
    IN  IF d >= 1 /\ e > d /\ s[e - d] = "_"
        THEN SubSeq(s, 1, e - d - 1) \o SubSeq(s, e + 1, Len(s))
        ELSE s

\* Lines 168-173 for split index i
SplitSource(parts, i) == StripNumSuffix(Join(SubSeq(parts, 1, i), "_"))
SplitTarget(parts, i) == StripNumSuffix(Join(SubSeq(parts, i + 1, Len(parts)), "_"))

\* Mutant of SplitLoop: line 175 tests the source only
RECURSIVE SplitLoopSourceOnly(_, _, _)
SplitLoopSourceOnly(parts, ns, i) ==
    IF i > Len(parts) - 1 THEN <<>>
    ELSE IF DictHas(ns, SplitSource(parts, i))
         THEN <<[source |-> SplitSource(parts, i), target |-> SplitTarget(parts, i)]>>
         ELSE SplitLoopSourceOnly(parts, ns, i + 1)

\* Mutant of SplitLoop: the split indices are tried from the longest source to
\* the shortest
RECURSIVE SplitLoopLongestFirst(_, _, _)
SplitLoopLongestFirst(parts, ns, i) ==
    IF i > Len(parts) - 1 THEN <<>>
    ELSE LET r == Len(parts) - i IN
         IF DictHas(ns, SplitSource(parts, r)) /\ DictHas(ns, SplitTarget(parts, r))
         THEN <<[source |-> SplitSource(parts, r), target |-> SplitTarget(parts, r)]>>
         ELSE SplitLoopLongestFirst(parts, ns, i + 1)

\* Lines 167-177: the loop over the split indices, from i on; the edges it appends
RECURSIVE SplitLoop(_, _, _)
SplitLoop(parts, ns, i) ==
    IF i > Len(parts) - 1 THEN <<>>
    ELSE IF DictHas(ns, SplitSource(parts, i)) /\ DictHas(ns, SplitTarget(parts, i))
         THEN <<[source |-> SplitSource(parts, i), target |-> SplitTarget(parts, i)]>>
         ELSE SplitLoop(parts, ns, i + 1)

\* Lines 158-177 for one path: the edges it appends
ResolveEdge(path_id, ns) ==
    IF ~StartsWith(path_id, LinkPrefix) THEN <<>>
    ELSE LET parts == Split(SubSeq(path_id, 3, Len(path_id)), "_") IN
         IF Len(parts) >= 2 THEN SplitLoop(parts, ns, 1) ELSE <<>>

\* Step 5
RECURSIVE ResolveEdgesLoop(_, _, _)
ResolveEdgesLoop(paths, ns, i) ==
    IF i > Len(paths) THEN <<>>
    ELSE ResolveEdge(paths[i], ns) \o ResolveEdgesLoop(paths, ns, i + 1)

\* Code points of the first character of each atom: Python orders strings by them
AtomRank(a) ==
    CASE a = " " -> 32
      [] a = "\"" -> 34
      [] a = "'" -> 39
      [] a = "-" -> 45
      [] a = "0" -> 48
      [] a = "1" -> 49
      [] a = ">" -> 62
      [] a = "A" -> 65
      [] a = "B" -> 66
      [] a = "C" -> 67
      [] a = "L" -> 76
      [] a = "X" -> 88
      [] a = "_" -> 95
      [] a = "a" -> 97
      [] a = "b" -> 98
      [] a = "flowchart" -> 102

\* Python: a < b on strings
RECURSIVE LexLess(_, _)
LexLess(a, b) ==
    IF b = <<>> THEN FALSE
    ELSE IF a = <<>> THEN TRUE
    ELSE IF AtomRank(Head(a)) # AtomRank(Head(b)) THEN AtomRank(Head(a)) < AtomRank(Head(b))
    ELSE LexLess(Tail(a), Tail(b))

\* f"{source} --> {target}"
EdgeLine(e) == e.source \o <<" ", "-", "-", ">", " ">> \o e.target

\* sorted(set(edges)): the distinct edge lines in ascending order.  An id of the
\* model holds no blank and no ">", so a line determines its source and target.
RECURSIVE SortedEdgeSet(_)
SortedEdgeSet(S) ==
    IF S = {} THEN <<>>
    ELSE LET m == CHOOSE x \in S : \A y \in S \ {x} : LexLess(EdgeLine(x), EdgeLine(y))
         IN  <<m>> \o SortedEdgeSet(S \ {m})

\* An emitted line.  indent counts the units of four blanks before the text.
Line(kind, id, text, target, indent) ==
    [kind |-> kind, id |-> id, text |-> text, target |-> target, indent |-> indent]

MsrTitle == "MSR Configuration"

\* Lines 183-200: add_cluster, the lines it appends
RECURSIVE AddCluster(_, _, _, _)
RECURSIVE AddChildren(_, _, _, _, _)
AddCluster(cs, ns, cluster_id, indent) ==
    LET data == DictGet(cs, cluster_id)
        title == IF data.title # <<>> THEN data.title ELSE <<"Cluster ">> \o cluster_id
    IN  <<Line("subgraph", cluster_id, title, <<>>, indent)>>
        \o [n \in 1..Len(data.nodes) |->
               Line("node", data.nodes[n], DictGet(ns, data.nodes[n]), <<>>, indent + 1)]
        \o AddChildren(cs, ns, data.children, 1, indent + 1)
        \o <<Line("end", <<>>, <<>>, <<>>, indent)>>

AddChildren(cs, ns, children, c, indent) ==
    IF c > Len(children) THEN <<>>
    ELSE AddCluster(cs, ns, children[c], indent) \o AddChildren(cs, ns, children, c + 1, indent)

\* Lines 203-206 without the condition: every cluster taken as top-level
TopLevelClustersAll(cs) == DictKeys(cs)

\* Lines 203-206
TopLevelClusters(cs) ==
    SelectSeq(DictKeys(cs),
              LAMBDA cid : ~ \E o \in 1..Len(cs) : cid \in Range(cs[o].val.children))

\* Lines 209-213: the first top-level cluster whose title holds "MSR Configuration",
\* <<>> for main_cluster = None
MainCluster(cs) ==
    LET top == TopLevelClusters(cs)
        M == {i \in 1..Len(top) : MsrTitle \in Range(DictGet(cs, top[i]).title)}
    IN  IF M = {} THEN <<>> ELSE top[CHOOSE i \in M : \A j \in M : i <= j]

\* Lines 215-223: the order in which the top-level clusters are emitted
EmitOrder(cs) ==
    LET top == TopLevelClusters(cs)
        main == MainCluster(cs)
    IN  IF main # <<>>
        THEN <<main>> \o SelectSeq(top, LAMBDA cid : cid # main)
        ELSE top

\* Lines 226-228
ClusteredNodes(cs) == UNION {Range(cs[i].val.nodes) : i \in 1..Len(cs)}

\* Lines 230-232
FloatingLines(cs, ns) ==
    LET free == SelectSeq(ns, LAMBDA n : n.key \notin ClusteredNodes(cs))
    IN  [i \in 1..Len(free) |-> Line("node", free[i].key, free[i].val, <<>>, 0)]

\* Lines 235-237 with mermaid.extend(edges) in place of the sorted set
EdgeLinesUnsorted(es) ==
    IF es = <<>> THEN <<>>
    ELSE <<Line("blank", <<>>, <<>>, <<>>, 0)>>
         \o [i \in 1..Len(es) |-> Line("edge", es[i].source, <<>>, es[i].target, 0)]

\* Lines 235-237
EdgeLines(es) ==
    IF es = <<>> THEN <<>>
    ELSE LET srt == SortedEdgeSet(Range(es)) IN
         <<Line("blank", <<>>, <<>>, <<>>, 0)>>
         \o [i \in 1..Len(srt) |-> Line("edge", srt[i].source, <<>>, srt[i].target, 0)]

\* Step 6: the list mermaid
EmitFlowchart(cs, ns, es) ==
    <<Line("header", <<>>, <<>>, <<>>, 0)>>
    \o AddChildren(cs, ns, EmitOrder(cs), 1, 0)
    \o FloatingLines(cs, ns)
    \o EdgeLines(es)

(***************************************************************************)
(* The flowchart inputs of the model                                       *)
(***************************************************************************)
Translate(x, y) == [kind |-> "translate", x |-> x, y |-> y]
NoTransform == [kind |-> "none", x |-> 0, y |-> 0]
Rect(x, y, w, h) == [kind |-> "rect", x |-> x, y |-> y, w |-> w, h |-> h]
NoRect == [kind |-> "none", x |-> 0, y |-> 0, w |-> 0, h |-> 0]
UnparsableRect == [kind |-> "unparsable", x |-> 0, y |-> 0, w |-> 0, h |-> 0]

\* Node elements for the geometry cases: ids flowchart-A-1, flowchart-B-2,
\* flowchart-A-3 (the same base id as the first, a blank after its label) and
\* flowchart-C-4, a node without label and without transform
GeomNodeElems ==
    { [id |-> <<"flowchart", "-", "A", "-", "1">>, label |-> <<"a">>,
       transform |-> Translate(2, 2)],
      [id |-> <<"flowchart", "-", "B", "-", "2">>, label |-> <<"b", "\"">>,
       transform |-> Translate(7, 7)],
      [id |-> <<"flowchart", "-", "A", "-", "3">>, label |-> <<"b", " ">>,
       transform |-> Translate(20, 20)],
      [id |-> <<"flowchart", "-", "C", "-", "4">>, label |-> Absent,
       transform |-> NoTransform] }

\* Cluster shapes for the geometry cases: an outer box, a box inside it, a box
\* inside that one, and a box that overlaps the two inner ones without holding
\* or being held by either
GeomClusterShapes ==
    { [title |-> <<MsrTitle>>, rect |-> Rect(0, 0, 8, 8)],
      [title |-> Absent,       rect |-> Rect(1, 1, 4, 4)],
      [title |-> <<>>,         rect |-> Rect(1, 1, 2, 2)],
      [title |-> <<"a", "\"">>, rect |-> Rect(2, 0, 4, 4)] }

\* The id attribute of the i-th cluster element of a geometry case
ClusterIdAt(i) == <<"c", <<"1", "2", "3", "4", "5", "6", "7", "8", "9">>[i]>>

GeomClusterLists ==
    { [i \in 1..Len(sh) |-> [id |-> ClusterIdAt(i), title |-> sh[i].title, rect |-> sh[i].rect]]
      : sh \in SeqUpTo(GeomClusterShapes, MaxClusters) }

\* Node elements for the edge cases: base ids A, A_A and B, and an element
\* whose id is no flowchart id
EdgeNodeElems ==
    { [id |-> <<"flowchart", "-", "A", "-", "1">>, label |-> <<"a">>,
       transform |-> Translate(2, 2)],
      [id |-> <<"flowchart", "-", "A", "_", "A", "-", "2">>, label |-> <<"b">>,
       transform |-> NoTransform],
      [id |-> <<"flowchart", "-", "B">>, label |-> <<"b">>,
       transform |-> Translate(20, 20)],
      [id |-> <<"X", "-", "C">>, label |-> <<"a">>,
       transform |-> Translate(2, 2)] }

\* Cluster elements for the edge cases: none, or one without a usable rect
\* followed by two without id attribute
EdgeClusterLists ==
    { <<>>,
      << [id |-> Absent, title |-> Absent, rect |-> NoRect],
         [id |-> Absent, title |-> <<"a">>, rect |-> Rect(1, 1, 4, 4)],
         [id |-> <<"c", "9">>, title |-> <<"b">>, rect |-> UnparsableRect] >> }

\* Path ids for the edge cases
EdgePathIds ==
    { <<"L", "_", "A", "_", "B", "_", "0">>,
      <<"L", "_", "A", "_", "A", "_", "A">>,
      <<"L", "_", "A", "_", "A", "_", "B", "_", "1">>,
      <<"L", "_", "B", "_", "X">>,
      <<"L", "_", "B", "_", "A">>,
      <<"L", "_", "A", "_", "B", "_", "#U+0663">>,
      <<"A", "_", "B">>,
      <<"L", "_", "A">> }

(***************************************************************************)
(* Idle values of the variables a specification does not use               *)
(***************************************************************************)
FlowIdle ==
    /\ fpc = "idle"
    /\ nodeElems = <<>> /\ clusterElems = <<>> /\ linkPaths = <<>>
    /\ nodes = <<>> /\ id_map = <<>> /\ clusters = <<>> /\ edges = <<>> /\ mermaid = <<>>

SeqIdle ==
    /\ spc = "idle"
    /\ actorGroups = <<>> /\ textElems = <<>> /\ msgElems = <<>>
    /\ participants = <<>> /\ actor_labels = {} /\ texts = <<>> /\ used_texts = {}
    /\ elements = <<>> /\ seq_mermaid = <<>>

NormIdle ==
    /\ npc = "idle" /\ joined = <<>> /\ markdown = <<>>

StateIdle ==
    /\ stpc = "idle"
    /\ stNodeElems = <<>> /\ stPathElems = <<>> /\ stLabelElems = <<>>
    /\ node_data = <<>> /\ edge_data = <<>> /\ matched_edges = <<>> /\ mermaid_lines = <<>>

DomIdle ==
    /\ dpc = "idle" /\ dom = <<>> /\ result_md = <<>>

DriverIdle ==
    /\ wpc = "idle" /\ sidebar = <<>> /\ urls = 0 /\ page = 0 /\ saved = {}
    /\ exc = "none" /\ caught = "none" /\ quits = 0 /\ propagated = FALSE

(***************************************************************************)
(* convert_flowchart_svg_to_mermaid_text as a state machine: one action    *)
(* per numbered step of the source                                         *)
(***************************************************************************)
FlowInit ==
    /\ fpc = "start"
    /\ \/ /\ nodeElems \in ElemLists(GeomNodeElems, MaxNodeElems)
          /\ clusterElems \in GeomClusterLists
          /\ linkPaths = <<>>
       \/ /\ nodeElems \in ElemLists(EdgeNodeElems, MaxNodeElems)
          /\ clusterElems \in EdgeClusterLists
          /\ linkPaths \in SeqUpTo(EdgePathIds, MaxLinkPaths)
    /\ nodes = <<>> /\ id_map = <<>> /\ clusters = <<>> /\ edges = <<>> /\ mermaid = <<>>
    /\ SeqIdle
    /\ NormIdle
    /\ StateIdle
    /\ DomIdle
    /\ DriverIdle

\* Step 1 with nodes and id_map kept from the call before, as module-level
\* dictionaries would be
ExtractNodesStale ==
    /\ fpc = "start"
    /\ LET r == ExtractNodesLoop(nodeElems, 1, nodes, id_map) IN
         /\ nodes' = r.nodes
         /\ id_map' = r.id_map
    /\ fpc' = "nodes"
    /\ UNCHANGED <<nodeElems, clusterElems, linkPaths, clusters, edges, mermaid>>
    /\ UNCHANGED <<seqVars, normVars, stateVars, domVars, driverVars>>

\* Step 1 (lines 24-44)
ExtractNodes ==
    /\ fpc = "start"
    /\ LET r == ExtractNodesLoop(nodeElems, 1, <<>>, <<>>) IN
         /\ nodes' = r.nodes
         /\ id_map' = r.id_map
    /\ fpc' = "nodes"
    /\ UNCHANGED <<nodeElems, clusterElems, linkPaths, clusters, edges, mermaid>>
    /\ UNCHANGED <<seqVars, normVars, stateVars, domVars, driverVars>>

\* Step 2 (lines 47-83)
ExtractClusters ==
    /\ fpc = "nodes"
    /\ clusters' = ExtractClustersLoop(clusterElems, 1, <<>>)
    /\ fpc' = "clusters"
    /\ UNCHANGED <<nodeElems, clusterElems, linkPaths, nodes, id_map, edges, mermaid>>
    /\ UNCHANGED <<seqVars, normVars, stateVars, domVars, driverVars>>

\* Step 3 (lines 86-113)
NestClustersStep ==
    /\ fpc = "clusters"
    /\ clusters' = NestClusters(clusters)
    /\ fpc' = "nested"
    /\ UNCHANGED <<nodeElems, clusterElems, linkPaths, nodes, id_map, edges, mermaid>>
    /\ UNCHANGED <<seqVars, normVars, stateVars, domVars, driverVars>>

\* Step 4 (lines 117-153)
AssignNodes ==
    /\ fpc = "nested"
    /\ clusters' = AssignNodesLoop(clusters, id_map, SortedClusterIds(clusters), 1, nodeElems)
    /\ fpc' = "assigned"
    /\ UNCHANGED <<nodeElems, clusterElems, linkPaths, nodes, id_map, edges, mermaid>>
    /\ UNCHANGED <<seqVars, normVars, stateVars, domVars, driverVars>>

\* Step 5 (lines 156-177)
ResolveEdges ==
    /\ fpc = "assigned"
    /\ edges' = ResolveEdgesLoop(linkPaths, nodes, 1)
    /\ fpc' = "edges"
    /\ UNCHANGED <<nodeElems, clusterElems, linkPaths, nodes, id_map, clusters, mermaid>>
    /\ UNCHANGED <<seqVars, normVars, stateVars, domVars, driverVars>>

\* Step 6 (lines 180-239)
Emit ==
    /\ fpc = "edges"
    /\ mermaid' = EmitFlowchart(clusters, nodes, edges)
    /\ fpc' = "done"
    /\ UNCHANGED <<nodeElems, clusterElems, linkPaths, nodes, id_map, clusters, edges>>
    /\ UNCHANGED <<seqVars, normVars, stateVars, domVars, driverVars>>

FlowNext == ExtractNodes \/ ExtractClusters \/ NestClustersStep \/ AssignNodes
            \/ ResolveEdges \/ Emit

FlowSpec == FlowInit /\ [][FlowNext]_vars

(***************************************************************************)
(* convert_sequence_svg_to_mermaid_text: the elements read from the svg    *)
(*                                                                         *)
(* text element   [kind, x, y, text]: kind "text" for numeric x and y,     *)
(*                "unparsable" when float() rejects one of them.  Two text *)
(*                elements with the same markup are equal and hash alike   *)
(*                (bs4 compares tags by name, attributes and contents), so *)
(*                a text element is its value.                             *)
(* actor group    [rect, label]: a <g> with a rect of class actor and a    *)
(*                text; rect is [kind, x, w], label the text element of    *)
(*                the group, whose text is the actor name                  *)
(* textElems      soup.find_all('text'): all text elements of the svg in   *)
(*                document order, the labels of the actor groups among     *)
(*                them at their place in the document                      *)
(* message        [tag, kind, x1, y1, x2, y2]: tag "line" with its four    *)
(*                attributes, or tag "path" with the first and the last    *)
(*                point that the pattern of line 310 finds in d; kind      *)
(*                "unparsable" for a line float() rejects and for a path   *)
(*                without points                                           *)
(* The attributes are whole numbers.  What the code computes from them by  *)
(* halving is held in halves: the position of a participant, the vertical  *)
(* position of an element and the middle of a message are twice the value  *)
(* of the code, a whole number.                                            *)
(***************************************************************************)
\* Line 268: float(rect.get('x', 0)) + float(rect.get('width', 0)) / 2, in halves
ActorX(rect) == 2 * rect.x + rect.w

\* Lines 264-275: the loop over the <g> elements; returns participants and
\* actor_labels; the name is text.get_text(strip=True)
RECURSIVE ExtractParticipantsLoop(_, _, _, _)
ExtractParticipantsLoop(groups, i, ps, labels) ==
    IF i > Len(groups) THEN [participants |-> ps, actor_labels |-> labels]
    ELSE LET g == groups[i] IN
         IF g.rect.kind # "rect"
         THEN ExtractParticipantsLoop(groups, i + 1, ps, labels)
         ELSE ExtractParticipantsLoop(groups, i + 1,
                                      DictSet(ps, Strip(g.label.text), ActorX(g.rect)),
                                      labels \cup {g.label})

\* Lines 285-296: the list texts, a dict for each text element of
\* soup.find_all('text'), taken in document order, that is no actor label and
\* has numeric coordinates
CollectTexts(all, labels) ==
    LET kept == SelectSeq(all, LAMBDA t : t \notin labels /\ t.kind = "text")
    IN  [i \in 1..Len(kept) |->
            [x |-> kept[i].x, y |-> kept[i].y, text |-> Strip(kept[i].text),
             element |-> kept[i]]]

\* Lines 299-300: find_actor, the first participant at the least distance;
\* x_pos is an attribute, the positions of the participants are in halves
FindActor(ps, x_pos) ==
    LET d(i) == Abs(ps[i].val - 2 * x_pos)
        best == CHOOSE i \in 1..Len(ps) :
                    /\ \A j \in 1..Len(ps) : d(i) <= d(j)
                    /\ \A j \in 1..(i - 1) : d(j) > d(i)
    IN  ps[best].key

\* Line 319: (y1 + y2) / 2, in halves
MidY(msg) == msg.y1 + msg.y2

RECURSIVE Pow2(_)
Pow2(n) == IF n = 0 THEN 1 ELSE 2 * Pow2(n - 1)

\* 2^n mod 5
Pow2Mod5(n) == <<1, 2, 4, 3>>[(n % 4) + 1]

(***************************************************************************)
(* The key of line 322 is a double.  With a = 2 * abs(t.y - mid_y) and     *)
(* b = 2 * abs(t.x - (x1 + x2) / 2), both whole, its value is              *)
(*     (10 a + 3 b) / 20  +  err * u,     u = 1 / (5 * 2^55),              *)
(* where err is whole: the double 0.3 is 0.3 - 2 u, the product            *)
(* 0.3 * (b / 2) is 2^53 * 3 b u - b u before it is rounded, and the ulp   *)
(* of a double in [2^(k-3), 2^(k-2)) is 5 * 2^k u.  A double is rounded to *)
(* the nearest multiple of its ulp, to the even one on a tie.              *)
(***************************************************************************)
\* The error after rounding a value v with v / u = m * 5 * 2^54 + 3 b 2^53 + E
\* to a multiple of 5 * 2^k u
RoundErr(E, b, k) ==
    LET ulp == 5 * Pow2(k)
        q == (Pow2(k) * ((3 * b * Pow2Mod5(53 - k)) % 5) + E) % ulp
        r == (Pow2(k + 1) * ((3 * b * Pow2Mod5(52 - k)) % 5) + E) % (2 * ulp)
    IN  IF 2 * q < ulp THEN E - q
        ELSE IF 2 * q > ulp THEN E + ulp - q
        ELSE IF r >= ulp THEN E + ulp - q ELSE E - q

\* The largest k from k on with 2^(k-3) <= 0.3 * (b / 2), for b >= 1
RECURSIVE ProductBinade(_, _)
ProductBinade(b, k) == IF 5 * Pow2(k + 1) < 6 * b THEN ProductBinade(b, k + 1) ELSE k

\* The largest k from k on with 2^(k-3) <= n / 20 + E u, for n >= 1
RECURSIVE SumBinade(_, _, _)
SumBinade(n, E, k) ==
    IF 5 * Pow2(k + 1) < 2 * n \/ (5 * Pow2(k + 1) = 2 * n /\ E >= 0)
    THEN SumBinade(n, E, k + 1) ELSE k

\* err of the double a / 2 + 0.3 * (b / 2)
FloatErr(a, b) ==
    IF b = 0 THEN 0
    ELSE LET E1 == RoundErr(-b, b, ProductBinade(b, 0))
         IN  RoundErr(E1, b, SumBinade(10 * a + 3 * b, E1, 0))

\* Line 322: abs(t['y'] - mid_y) + 0.3 * abs(t['x'] - (x1 + x2)/2), the double
\* exact / 20 + err * u
TextDistance(t, msg) ==
    LET a == Abs(2 * t.y - MidY(msg))
        b == Abs(2 * t.x - (msg.x1 + msg.x2))
    IN  [exact |-> 10 * a + 3 * b, err |-> FloatErr(a, b)]

\* The order of the doubles
KeyLess(k1, k2) == k1.exact < k2.exact \/ (k1.exact = k2.exact /\ k1.err < k2.err)

\* Lines 320-324: the indices in texts of the unused labels
UnusedTexts(ts, used) == {i \in 1..Len(ts) : ts[i].element \notin used}

\* Lines 320-324: min(), the index of the first unused label at the least distance
ClosestText(ts, used, msg) ==
    LET U == UnusedTexts(ts, used) IN
    CHOOSE i \in U :
        /\ \A j \in U : ~KeyLess(TextDistance(ts[j], msg), TextDistance(ts[i], msg))
        /\ \A j \in U : j < i => KeyLess(TextDistance(ts[i], msg), TextDistance(ts[j], msg))

\* An emitted line of the sequence diagram
SeqLine(kind, a, b, text) == [kind |-> kind, a |-> a, b |-> b, text |-> text]

\* Lines 304-333: the body of the loop for one message; returns elements and used_texts
ProcessMessage(ps, ts, els, used, msg) ==
    IF msg.kind # "ok" THEN [elements |-> els, used_texts |-> used]
    ELSE IF UnusedTexts(ts, used) = {} THEN [elements |-> els, used_texts |-> used]
    ELSE LET sender == FindActor(ps, msg.x1)
             receiver == FindActor(ps, msg.x2)
             closest_text == ts[ClosestText(ts, used, msg)]
         IN  [elements |-> Append(els, [y |-> MidY(msg),
                                         line |-> SeqLine("message", sender, receiver,
                                                          closest_text.text)]),
              used_texts |-> used \cup {closest_text.element}]

\* Lines 303-333: the loop over the messages
RECURSIVE ProcessMessagesLoop(_, _, _, _, _, _)
ProcessMessagesLoop(ps, ts, els, used, msgs, i) ==
    IF i > Len(msgs) THEN [elements |-> els, used_texts |-> used]
    ELSE LET r == ProcessMessage(ps, ts, els, used, msgs[i]) IN
         ProcessMessagesLoop(ps, ts, r.elements, r.used_texts, msgs, i + 1)

\* Lines 336-341: the notes, one for each label that is not in used_texts;
\* the vertical position in halves
NoteElements(ps, ts, used) ==
    LET rest == SelectSeq(ts, LAMBDA t : t.element \notin used) IN
    [i \in 1..Len(rest) |->
        [y |-> 2 * rest[i].y,
         line |-> SeqLine("note", FindActor(ps, rest[i].x), <<>>, rest[i].text)]]

\* Mutant of ParticipantOrder: the participants in the order of the dict
ParticipantOrderUnsorted(ps) == DictKeys(ps)

\* Line 346: the participant names by ascending x
ParticipantOrder(ps) ==
    LET srt == SortedByKey([i \in 1..Len(ps) |-> [k |-> ps[i].val, v |-> ps[i].key]])
    IN  [i \in 1..Len(srt) |-> srt[i].v]

\* Mutant of ElementOrder: at equal vertical position the later element first
RECURSIVE ElementOrderTiesReversed(_)
ElementOrderTiesReversed(els) ==
    IF els = <<>> THEN <<>>
    ELSE LET rest == ElementOrderTiesReversed(SubSeq(els, 1, Len(els) - 1))
             x == els[Len(els)]
             before == SelectSeq(rest, LAMBDA e : e.y < x.y)
             after == SelectSeq(rest, LAMBDA e : e.y >= x.y)
         IN  before \o <<x>> \o after

\* Line 350: sorted(elements, key=lambda x: x[0])
ElementOrder(els) ==
    LET srt == SortedByKey([i \in 1..Len(els) |-> [k |-> els[i].y, v |-> els[i]]])
    IN  [i \in 1..Len(srt) |-> srt[i].v]

\* Lines 344-351: the list mermaid
EmitSequence(ps, els) ==
    <<SeqLine("header", <<>>, <<>>, <<>>)>>
    \o [i \in 1..Len(ps) |-> SeqLine("participant", ParticipantOrder(ps)[i], <<>>, <<>>)]
    \o [i \in 1..Len(els) |-> ElementOrder(els)[i].line]

(***************************************************************************)
(* The sequence-diagram inputs of the model                                *)
(***************************************************************************)
Text(x, y, text) == [kind |-> "text", x |-> x, y |-> y, text |-> text]
UnparsableText(text) == [kind |-> "unparsable", x |-> 0, y |-> 0, text |-> text]
Actor(name, x, w, ly) ==
    [rect |-> [kind |-> "rect", x |-> x, w |-> w], label |-> Text(x + w \div 2, ly, name)]
MsgLine(x1, y1, x2, y2) ==
    [tag |-> "line", kind |-> "ok", x1 |-> x1, y1 |-> y1, x2 |-> x2, y2 |-> y2]
MsgPath(x1, y1, x2, y2) ==
    [tag |-> "path", kind |-> "ok", x1 |-> x1, y1 |-> y1, x2 |-> x2, y2 |-> y2]
MsgPathNoPoints ==
    [tag |-> "path", kind |-> "unparsable", x1 |-> 0, y1 |-> 0, x2 |-> 0, y2 |-> 0]

\* Actors at x = 10, 50 and 30, the last with a blank before its name, and a
\* second shape of the first actor, of odd width, at x = 39.5
ActorShapes ==
    { Actor(<<"Client">>, 8, 4, 0), Actor(<<"Server">>, 48, 4, 0),
      Actor(<<" ", "Cache">>, 28, 4, 0), Actor(<<"Client">>, 38, 3, 100) }

\* An actor group whose rect has no numeric x: line 268 raises, the group is skipped
BadActor == [rect |-> [kind |-> "unparsable", x |-> 0, w |-> 0], label |-> Text(0, 20, <<"Ghost">>)]

FixedActorLists ==
    { << Actor(<<"Client">>, 8, 4, 0), Actor(<<"Server">>, 48, 4, 0) >>,
      << BadActor, Actor(<<"Server">>, 48, 4, 0), Actor(<<"Client">>, 8, 4, 0) >>,
      << BadActor >> }

\* The last two are at the distance 6.9 from the middle of the first message
\* of MsgShapes: the keys of line 322 are the doubles 6.9 and 6.8999999999999995
TextShapes ==
    { Text(30, 18, <<"hello", NL>>), Text(30, 20, <<"reply">>), Text(50, 20, <<"remark">>),
      UnparsableText(<<"lost">>), Text(33, 26, <<"late">>), Text(7, 20, <<"early">>) }

FixedTextLists == { <<>>, << Text(30, 20, <<"reply">>) >> }

\* g.find('text') for each group: the labels in document order
ActorLabels(groups) == [i \in 1..Len(groups) |-> groups[i].label]

\* The ways to interleave two lists of elements of a document
RECURSIVE Merges(_, _)
Merges(a, b) ==
    IF a = <<>> THEN {b}
    ELSE IF b = <<>> THEN {a}
    ELSE {<<Head(a)>> \o m : m \in Merges(Tail(a), b)}
         \cup {<<Head(b)>> \o m : m \in Merges(a, Tail(b))}

MsgShapes ==
    { MsgLine(10, 20, 50, 20), MsgPath(50, 40, 10, 40), MsgLine(10, 30, 10, 50),
      MsgPathNoPoints }

FixedMsgLists == { <<>>, << MsgLine(10, 20, 50, 20) >> }

(***************************************************************************)
(* convert_sequence_svg_to_mermaid_text as a state machine                 *)
(***************************************************************************)
SeqInit ==
    /\ spc = "start"
    /\ \/ /\ actorGroups \in SeqUpTo(ActorShapes, MaxActors)
          /\ \E others \in FixedTextLists :
                textElems \in Merges(ActorLabels(actorGroups), others)
          /\ msgElems \in FixedMsgLists
       \/ /\ actorGroups \in FixedActorLists
          /\ \E others \in SeqUpTo(TextShapes, MaxTexts) :
                textElems \in Merges(ActorLabels(actorGroups), others)
          /\ msgElems \in SeqUpTo(MsgShapes, MaxMsgs)
    /\ participants = <<>> /\ actor_labels = {} /\ texts = <<>> /\ used_texts = {}
    /\ elements = <<>> /\ seq_mermaid = <<>>
    /\ FlowIdle
    /\ NormIdle
    /\ StateIdle
    /\ DomIdle
    /\ DriverIdle

\* Lines 259-278: the participants; without any the function returns the text
\* of line 278
ExtractParticipants ==
    /\ spc = "start"
    /\ LET r == ExtractParticipantsLoop(actorGroups, 1, <<>>, {}) IN
         /\ participants' = r.participants
         /\ actor_labels' = r.actor_labels
         /\ spc' = IF r.participants = <<>> THEN "no_participants" ELSE "participants"
    /\ UNCHANGED <<actorGroups, textElems, msgElems, texts, used_texts, elements, seq_mermaid>>
    /\ UNCHANGED <<flowVars, normVars, stateVars, domVars, driverVars>>

\* Lines 281-296: elements and used_texts are bound to a fresh list and set
\* (lines 281-282) before the texts are collected
CollectTextsStep ==
    /\ spc = "participants"
    /\ elements' = <<>>
    /\ used_texts' = {}
    /\ texts' = CollectTexts(textElems, actor_labels)
    /\ spc' = "texts"
    /\ UNCHANGED <<actorGroups, textElems, msgElems, participants, actor_labels, seq_mermaid>>
    /\ UNCHANGED <<flowVars, normVars, stateVars, domVars, driverVars>>

\* Lines 303-333
ProcessMessages ==
    /\ spc = "texts"
    /\ LET r == ProcessMessagesLoop(participants, texts, elements, used_texts, msgElems, 1) IN
         /\ elements' = r.elements
         /\ used_texts' = r.used_texts
    /\ spc' = "messages"
    /\ UNCHANGED <<actorGroups, textElems, msgElems, participants, actor_labels, texts,
                   seq_mermaid>>
    /\ UNCHANGED <<flowVars, normVars, stateVars, domVars, driverVars>>

\* Lines 336-341
ProcessNotes ==
    /\ spc = "messages"
    /\ elements' = elements \o NoteElements(participants, texts, used_texts)
    /\ spc' = "notes"
    /\ UNCHANGED <<actorGroups, textElems, msgElems, participants, actor_labels, texts,
                   used_texts, seq_mermaid>>
    /\ UNCHANGED <<flowVars, normVars, stateVars, domVars, driverVars>>

\* Lines 344-353
EmitSequenceStep ==
    /\ spc = "notes"
    /\ seq_mermaid' = EmitSequence(participants, elements)
    /\ spc' = "done"
    /\ UNCHANGED <<actorGroups, textElems, msgElems, participants, actor_labels, texts,
                   used_texts, elements>>
    /\ UNCHANGED <<flowVars, normVars, stateVars, domVars, driverVars>>

SeqNext == ExtractParticipants \/ CollectTextsStep \/ ProcessMessages \/ ProcessNotes
           \/ EmitSequenceStep

SeqSpec == SeqInit /\ [][SeqNext]_vars

(***************************************************************************)
(* deepwiki2markdown, lines 806-807: the text of one page.  A text is a    *)
(* sequence of the atoms "a" (a character that is no white space), " ",   *)
(* the newline and the no-break space.                                     *)
(***************************************************************************)
\* Number of newlines at the start of s
RECURSIVE NewlineRun(_)
NewlineRun(s) == IF s # <<>> /\ Head(s) = NL THEN 1 + NewlineRun(Tail(s)) ELSE 0

\* Mutant of CollapseNewlines: the pattern \n{3} in place of \n{3,}
RECURSIVE CollapseThree(_)
CollapseThree(s) ==
    IF s = <<>> THEN <<>>
    ELSE IF NewlineRun(s) >= 3 THEN <<NL, NL>> \o CollapseThree(SubSeq(s, 4, Len(s)))
    ELSE <<Head(s)>> \o CollapseThree(Tail(s))

\* re.sub(r'\n{3,}', '\n\n', s): scanning from the left, every match is a whole
\* run of three or more newlines
RECURSIVE CollapseNewlines(_)
CollapseNewlines(s) ==
    IF s = <<>> THEN <<>>
    ELSE LET n == NewlineRun(s) IN
         IF n >= 3 THEN <<NL, NL>> \o CollapseNewlines(SubSeq(s, n + 1, Len(s)))
         ELSE <<Head(s)>> \o CollapseNewlines(Tail(s))

\* Line 807: re.sub(r'\n{3,}', '\n\n', markdown.strip())
Normalise(s) == CollapseNewlines(Strip(s))

PageAtoms == {"a", " ", NL, "#U+00A0"}

NormInit ==
    /\ npc = "start"
    /\ joined \in SeqUpTo(PageAtoms, MaxTextLen)
    /\ markdown = <<>>
    /\ FlowIdle
    /\ SeqIdle
    /\ StateIdle
    /\ DomIdle
    /\ DriverIdle

\* Line 806: markdown = ''.join(process_node(child) for child in content.children)
JoinBlocks ==
    /\ npc = "start"
    /\ markdown' = joined
    /\ npc' = "joined"
    /\ UNCHANGED joined
    /\ UNCHANGED <<flowVars, seqVars, stateVars, domVars, driverVars>>

\* Line 807
NormalisePage ==
    /\ npc = "joined"
    /\ markdown' = Normalise(markdown)
    /\ npc' = "normalised"
    /\ UNCHANGED joined
    /\ UNCHANGED <<flowVars, seqVars, stateVars, domVars, driverVars>>

NormNext == JoinBlocks \/ NormalisePage

NormSpec == NormInit /\ [][NormNext]_vars

(***************************************************************************)
(* convert_statediagram_svg_to_mermaid_text.  An element id is a sequence  *)
(* of characters; a state name or label is a sequence of atoms, <<>> the   *)
(* empty string and Absent the value None.  An operator that can raise     *)
(* returns a record whose field raised tells whether it did.               *)
(***************************************************************************)
\* Python: sub in s
IsSubstring(sub, s) ==
    \E i \in 0..(Len(s) - Len(sub)) : SubSeq(s, i + 1, i + Len(sub)) = sub

\* Python: bool(s) for a string or None
Truthy(s) == s # Absent /\ s # <<>>

\* Lines 372-378: the state name of a node; node.get('id') is None or
\* node.find('p') is None raises
StateOfNode(node) ==
    IF node.id = Absent THEN [raised |-> TRUE, state |-> Absent]
    ELSE IF IsSubstring(<<"s", "t", "a", "r", "t">>, node.id)
         THEN [raised |-> FALSE, state |-> <<"start">>]
    ELSE IF IsSubstring(<<"e", "n", "d">>, node.id)
         THEN [raised |-> FALSE, state |-> <<"end">>]
    ELSE IF node.p = Absent THEN [raised |-> TRUE, state |-> Absent]
    ELSE [raised |-> FALSE, state |-> Strip(node.p)]

\* Lines 370-389: the loop over the nodes; a transform without translate(x, y)
\* raises at line 382
RECURSIVE CollectNodesLoop(_, _, _)
CollectNodesLoop(elems, i, acc) ==
    IF i > Len(elems) THEN [raised |-> FALSE, node_data |-> acc]
    ELSE LET node == elems[i]
             st == StateOfNode(node)
         IN  IF st.raised \/ node.transform.kind # "translate"
             THEN [raised |-> TRUE, node_data |-> acc]
             ELSE CollectNodesLoop(elems, i + 1,
                      Append(acc, [id |-> node.id, state |-> st.state,
                                   x |-> node.transform.x, y |-> node.transform.y]))

\* Lines 398-402: the coordinates of a path, given as its commands with their
\* numbers; only the commands M, L and C are read, the numbers taken in pairs
RECURSIVE PathCoords(_)
PathCoords(d) ==
    IF d = <<>> THEN <<>>
    ELSE LET nums == Head(d).nums
             pairs == [k \in 1..(Len(nums) \div 2) |-> <<nums[2 * k - 1], nums[2 * k]>>]
         IN  (IF Head(d).cmd \in {"M", "L", "C"} THEN pairs ELSE <<>>) \o PathCoords(Tail(d))

\* Lines 404-405: coords[0] and coords[-1], <<>> for None
StartPoint(d) == IF PathCoords(d) = <<>> THEN <<>> ELSE PathCoords(d)[1]
EndPoint(d) == IF PathCoords(d) = <<>> THEN <<>> ELSE PathCoords(d)[Len(PathCoords(d))]

\* Lines 409-422: the loop over the labels for one path; a transform that is
\* not empty and has no translate(x, y) raises at line 414
RECURSIVE LabelLoop(_, _, _, _, _)
LabelLoop(labels, j, start_point, end_point, label_text) ==
    IF j > Len(labels) THEN [raised |-> FALSE, label |-> label_text]
    ELSE LET label == labels[j]
             label_x == IF label.transform.kind = "translate" THEN label.transform.x ELSE 0
             label_y == IF label.transform.kind = "translate" THEN label.transform.y ELSE 0
         IN  IF label.transform.kind \notin {"translate", "none"}
             THEN [raised |-> TRUE, label |-> label_text]
             ELSE IF /\ start_point # <<>> /\ end_point # <<>>
                     /\ Abs(2 * label_x - (start_point[1] + end_point[1])) < 160
                     /\ Abs(2 * label_y - (start_point[2] + end_point[2])) < 160
                  THEN LabelLoop(labels, j + 1, start_point, end_point,
                                 IF label.p = Absent THEN Absent ELSE Strip(label.p))
                  ELSE LabelLoop(labels, j + 1, start_point, end_point, label_text)

\* Lines 395-429: the loop over the paths
RECURSIVE CollectEdgesLoop(_, _, _, _)
CollectEdgesLoop(paths, labels, i, acc) ==
    IF i > Len(paths) THEN [raised |-> FALSE, edge_data |-> acc]
    ELSE LET l == LabelLoop(labels, 1, StartPoint(paths[i].d), EndPoint(paths[i].d), Absent)
         IN  IF l.raised THEN [raised |-> TRUE, edge_data |-> acc]
             ELSE CollectEdgesLoop(paths, labels, i + 1,
                      Append(acc, [start |-> StartPoint(paths[i].d),
                                   end |-> EndPoint(paths[i].d), label |-> l.label]))

\* Lines 438-444 and 447-453: the state of the first node at the least distance
\* from the point, None without a node of non-empty state; math.dist raises on
\* the point None
NearestState(nd, pt) ==
    LET cands == {k \in 1..Len(nd) : Truthy(nd[k].state)}
        d2(k) == (pt[1] - nd[k].x) * (pt[1] - nd[k].x) + (pt[2] - nd[k].y) * (pt[2] - nd[k].y)
    IN  IF cands = {} THEN [raised |-> FALSE, state |-> Absent]
        ELSE IF pt = <<>> THEN [raised |-> TRUE, state |-> Absent]
        ELSE [raised |-> FALSE,
              state |-> nd[CHOOSE k \in cands :
                              /\ \A m \in cands : d2(k) <= d2(m)
                              /\ \A m \in cands : m < k => d2(m) > d2(k)].state]

\* Lines 433-459: the loop over edge_data
RECURSIVE MatchEdgesLoop(_, _, _, _)
MatchEdgesLoop(ed, nd, i, acc) ==
    IF i > Len(ed) THEN [raised |-> FALSE, matched_edges |-> acc]
    ELSE LET s == NearestState(nd, ed[i].start)
             e == NearestState(nd, ed[i].end)
         IN  IF s.raised \/ e.raised THEN [raised |-> TRUE, matched_edges |-> acc]
             ELSE MatchEdgesLoop(ed, nd, i + 1,
                      Append(acc, [from |-> s.state, to |-> e.state, label |-> ed[i].label]))

\* Lines 464-471: the line of one matched edge, <<>> when nothing is emitted
StateLine(edge) ==
    LET label == IF Truthy(edge.label) THEN <<" : ">> \o edge.label ELSE <<>> IN
    IF ~(Truthy(edge.from) /\ Truthy(edge.to)) THEN <<>>
    ELSE IF edge.from = <<"start">> THEN <<"    ", "[*]", " --> ">> \o edge.to \o label
    ELSE IF edge.to = <<"end">> THEN <<"    ">> \o edge.from \o <<" --> ", "[*]">> \o label
    ELSE <<"    ">> \o edge.from \o <<" --> ">> \o edge.to \o label

\* Lines 462-471: the list mermaid_lines
EmitStateLines(me) ==
    <<<<"stateDiagram-v2">>>>
    \o SelectSeq([i \in 1..Len(me) |-> StateLine(me[i])], LAMBDA l : l # <<>>)

\* Lines 361-473: the whole function; lines is the list mermaid_lines
ConvertStatediagram(nodeEls, pathEls, labelEls) ==
    LET n == CollectNodesLoop(nodeEls, 1, <<>>)
        e == CollectEdgesLoop(pathEls, labelEls, 1, <<>>)
        m == MatchEdgesLoop(e.edge_data, n.node_data, 1, <<>>)
    IN  IF n.raised \/ e.raised \/ m.raised THEN [raised |-> TRUE, lines |-> <<>>]
        ELSE [raised |-> FALSE, lines |-> EmitStateLines(m.matched_edges)]

(***************************************************************************)
(* The state-diagram inputs of the model                                   *)
(***************************************************************************)
BadTransform == [kind |-> "unparsable", x |-> 0, y |-> 0]
StNode(id, p, transform) == [id |-> id, p |-> p, transform |-> transform]
PathTo(x1, y1, x2, y2) ==
    [d |-> << [cmd |-> "M", nums |-> <<x1, y1>>], [cmd |-> "L", nums |-> <<x2, y2>>] >>]
StLabel(p, transform) == [p |-> p, transform |-> transform]

StartNode == StNode(<<"s", "-", "s", "t", "a", "r", "t">>, Absent, Translate(0, 0))
IdleNode == StNode(<<"s", "-", "I", "d", "l", "e">>, <<" ", "Idle">>, Translate(0, 100))
BusyNode == StNode(<<"s", "-", "B", "u", "s", "y">>, <<"Busy">>, Translate(100, 100))
EndNode == StNode(<<"s", "-", "e", "n", "d">>, Absent, Translate(0, 200))

\* The four nodes above, a node whose id holds the letters e, n, d, and the
\* faulty shapes: no transform, no id, no <p>
StNodeShapes ==
    { StartNode, IdleNode, BusyNode, EndNode,
      StNode(<<"s", "-", "P", "e", "n", "d">>, <<"Pend">>, Translate(200, 200)),
      StNode(<<"s", "-", "L", "o", "s", "t">>, <<"Lost">>, NoTransform),
      StNode(Absent, <<"Anon">>, Translate(5, 5)),
      StNode(<<"s", "-", "B", "a", "r", "e">>, Absent, Translate(5, 5)) }

FixedStNodeLists ==
    { <<>>, << StartNode, IdleNode, EndNode >>, << IdleNode, BusyNode >> }

\* start -> Idle, Idle -> end, Busy -> Idle, and a path without coordinates
StPathShapes ==
    { PathTo(0, 0, 0, 100), PathTo(0, 100, 0, 200), PathTo(100, 100, 0, 100),
      [d |-> << [cmd |-> "Z", nums |-> <<>>] >>] }

FixedStPathLists ==
    { <<>>, << PathTo(0, 0, 0, 100), PathTo(0, 100, 0, 200) >>, << PathTo(100, 100, 0, 100) >> }

\* A label near start -> Idle, a label without transform, a label far from
\* every path, and a label whose transform has no translate
StLabelShapes ==
    { StLabel(<<"go">>, Translate(0, 50)), StLabel(<<"x">>, NoTransform),
      StLabel(<<"far">>, Translate(500, 500)), StLabel(<<"bad">>, BadTransform) }

FixedStLabelLists == { <<>>, << StLabel(<<"go">>, Translate(0, 50)) >> }

(***************************************************************************)
(* convert_statediagram_svg_to_mermaid_text as a state machine             *)
(***************************************************************************)
StateInit ==
    /\ stpc = "start"
    /\ \/ /\ stNodeElems \in SeqUpTo(StNodeShapes, MaxStNodes)
          /\ stPathElems \in FixedStPathLists
          /\ stLabelElems \in FixedStLabelLists
       \/ /\ stNodeElems \in FixedStNodeLists
          /\ stPathElems \in SeqUpTo(StPathShapes, MaxStPaths)
          /\ stLabelElems \in SeqUpTo(StLabelShapes, MaxStLabels)
    /\ node_data = <<>> /\ edge_data = <<>> /\ matched_edges = <<>> /\ mermaid_lines = <<>>
    /\ FlowIdle
    /\ SeqIdle
    /\ NormIdle
    /\ DomIdle
    /\ DriverIdle

\* Lines 367-389
CollectStateNodes ==
    /\ stpc = "start"
    /\ LET r == CollectNodesLoop(stNodeElems, 1, <<>>) IN
         /\ node_data' = r.node_data
         /\ stpc' = IF r.raised THEN "raised" ELSE "nodes"
    /\ UNCHANGED <<stNodeElems, stPathElems, stLabelElems, edge_data, matched_edges,
                   mermaid_lines>>
    /\ UNCHANGED <<flowVars, seqVars, normVars, domVars, driverVars>>

\* Lines 391-429
CollectStateEdges ==
    /\ stpc = "nodes"
    /\ LET r == CollectEdgesLoop(stPathElems, stLabelElems, 1, <<>>) IN
         /\ edge_data' = r.edge_data
         /\ stpc' = IF r.raised THEN "raised" ELSE "edges"
    /\ UNCHANGED <<stNodeElems, stPathElems, stLabelElems, node_data, matched_edges,
                   mermaid_lines>>
    /\ UNCHANGED <<flowVars, seqVars, normVars, domVars, driverVars>>

\* Lines 431-459
MatchStateEdges ==
    /\ stpc = "edges"
    /\ LET r == MatchEdgesLoop(edge_data, node_data, 1, <<>>) IN
         /\ matched_edges' = r.matched_edges
         /\ stpc' = IF r.raised THEN "raised" ELSE "matched"
    /\ UNCHANGED <<stNodeElems, stPathElems, stLabelElems, node_data, edge_data,
                   mermaid_lines>>
    /\ UNCHANGED <<flowVars, seqVars, normVars, domVars, driverVars>>

\* Lines 461-473
EmitStateDiagram ==
    /\ stpc = "matched"
    /\ mermaid_lines' = EmitStateLines(matched_edges)
    /\ stpc' = "done"
    /\ UNCHANGED <<stNodeElems, stPathElems, stLabelElems, node_data, edge_data,
                   matched_edges>>
    /\ UNCHANGED <<flowVars, seqVars, normVars, domVars, driverVars>>

StateNext == CollectStateNodes \/ CollectStateEdges \/ MatchStateEdges \/ EmitStateDiagram

StateSpec == StateInit /\ [][StateNext]_vars

(***************************************************************************)
(* The three converters as functions of the svg element, as process_node   *)
(* calls them.  The attribute diagram of an svg node holds what the        *)
(* selectors of the converters find in it.  A returned text is a sequence  *)
(* of atoms.                                                               *)
(***************************************************************************)
\* The atom Fence stands for the three backquotes that open and close a block
Fence == "#fence"

\* Line 241 and the like: Fence + "mermaid\n" + "\n".join(lines) + "\n" + Fence
MermaidBlock(lines) == <<Fence, "mermaid", NL>> \o Join(lines, NL) \o <<NL, Fence>>

Indent(n) == [i \in 1..n |-> "    "]

\* The text of an emitted flowchart line (lines 180, 189, 193, 200, 232, 236)
FlowLineText(l) ==
    CASE l.kind = "header" -> <<"flowchart TD">>
      [] l.kind = "subgraph" ->
            Indent(l.indent) \o <<"subgraph ">> \o l.id \o <<"[", "\"">> \o l.text \o <<"\"", "]">>
      [] l.kind = "node" -> Indent(l.indent) \o l.id \o <<"[", "\"">> \o l.text \o <<"\"", "]">>
      [] l.kind = "end" -> Indent(l.indent) \o <<"end">>
      [] l.kind = "blank" -> <<>>
      [] l.kind = "edge" -> EdgeLine([source |-> l.id, target |-> l.target])

\* Lines 24-239: the list mermaid of convert_flowchart_svg_to_mermaid_text
FlowchartLines(nodeEls, clusterEls, paths) ==
    LET n == ExtractNodesLoop(nodeEls, 1, <<>>, <<>>)
        c1 == NestClusters(ExtractClustersLoop(clusterEls, 1, <<>>))
        c2 == AssignNodesLoop(c1, n.id_map, SortedClusterIds(c1), 1, nodeEls)
    IN  EmitFlowchart(c2, n.nodes, ResolveEdgesLoop(paths, n.nodes, 1))

\* Lines 12-243
ConvertFlowchart(d) ==
    LET ls == FlowchartLines(d.nodeElems, d.clusterElems, d.linkPaths)
    IN  MermaidBlock([i \in 1..Len(ls) |-> FlowLineText(ls[i])])

\* Line 359; the atom stands for the fixed sentence of the source, which says
\* that class diagrams are not supported yet
ConvertClass(d) == MermaidBlock(<<<<"#class-diagram-not-supported">>>>)

\* The text of an emitted sequence line (lines 328-351)
SeqLineText(l) ==
    CASE l.kind = "header" -> <<"sequenceDiagram">>
      [] l.kind = "participant" -> <<"    participant ">> \o l.a
      [] l.kind = "message" -> <<"    ">> \o l.a \o <<"->>">> \o l.b \o <<": ">> \o l.text
      [] l.kind = "note" -> <<"    note over ">> \o l.a \o <<": ">> \o l.text

\* Lines 259-351: the list mermaid of convert_sequence_svg_to_mermaid_text, for a
\* diagram with a participant
SequenceLines(groups, all, msgs) ==
    LET p == ExtractParticipantsLoop(groups, 1, <<>>, {})
        ts == CollectTexts(all, p.actor_labels)
        m == ProcessMessagesLoop(p.participants, ts, <<>>, {}, msgs, 1)
    IN  EmitSequence(p.participants,
                     m.elements \o NoteElements(p.participants, ts, m.used_texts))

\* Lines 245-356; the atom "#no-participant-error" stands for the fixed sentence
\* returned at line 278
ConvertSequence(d) ==
    IF ExtractParticipantsLoop(d.actorGroups, 1, <<>>, {}).participants = <<>>
    THEN <<"#no-participant-error">>
    ELSE LET ls == SequenceLines(d.actorGroups, d.textElems, d.msgElems)
         IN  MermaidBlock([i \in 1..Len(ls) |-> SeqLineText(ls[i])])

(***************************************************************************)
(* process_node.  A DOM node is a record; a text node has the name "#text" *)
(* and its text in the field string; an absent attribute is Absent.        *)
(***************************************************************************)
\* What the selectors of the converters find in an element: nothing
EmptyDiagram ==
    [nodeElems |-> <<>>, clusterElems |-> <<>>, linkPaths |-> <<>>,
     actorGroups |-> <<>>, textElems |-> <<>>, msgElems |-> <<>>,
     stNodeElems |-> <<>>, stPathElems |-> <<>>, stLabelElems |-> <<>>]

\* bs4: the tags whose strings are of a class of their own (Script,
\* Stylesheet, TemplateString, RubyTextString, RubyParenthesisString)
StringContainers == {"script", "style", "template", "rt", "rp"}

\* bs4, string_container(): a string parsed inside a tag of StringContainers
\* is of the class of the nearest such tag above it; the field container of a
\* text node holds the name of that tag, "none" for a plain NavigableString
RECURSIVE Contained(_, _)
Contained(children, name) ==
    [i \in 1..Len(children) |->
        LET c == children[i] IN
        IF c.name = "#text"
        THEN (IF c.container = "none" THEN [c EXCEPT !.container = name] ELSE c)
        ELSE [c EXCEPT !.children = Contained(c.children, name)]]

\* An element with its children, as the parser builds it
Node(name, children) ==
    [name |-> name, string |-> <<>>, container |-> "none", style |-> Absent, href |-> Absent,
     src |-> Absent, alt |-> Absent, id |-> Absent, role |-> Absent, diagram |-> EmptyDiagram,
     children |-> IF name \in StringContainers THEN Contained(children, name) ELSE children]

TextNode(s) == [Node("#text", <<>>) EXCEPT !.string = s]

\* Python: node.get(attr, '')
AttrOr(v) == IF v = Absent THEN <<>> ELSE v

\* All descendants of a node in document order
RECURSIVE Descendants(_)
RECURSIVE DescendantsOf(_)
Descendants(node) == DescendantsOf(node.children)
DescendantsOf(children) ==
    IF children = <<>> THEN <<>>
    ELSE <<Head(children)>> \o Descendants(Head(children)) \o DescendantsOf(Tail(children))

\* bs4: node.find_all(names)
FindAll(node, names) == SelectSeq(Descendants(node), LAMBDA c : c.name \in names)

\* bs4, _all_strings() with the default types: the strings below a tag, in
\* document order, whose class is the one the tag is interested in, which is
\* the class of its own name for a tag of StringContainers and the plain
\* NavigableString for every other tag
AllStrings(node) ==
    LET own == IF node.name \in StringContainers THEN node.name ELSE "none"
        strs == SelectSeq(Descendants(node), LAMBDA c : c.name = "#text" /\ c.container = own)
    IN  [i \in 1..Len(strs) |-> strs[i].string]

\* bs4: node.get_text(strip=strip); with strip each string is stripped and
\* left out when nothing remains
GetText(node, strip) ==
    LET strs == AllStrings(node)
        piece(i) == IF strip THEN Strip(strs[i]) ELSE strs[i]
        RECURSIVE cat(_)
        cat(i) == IF i > Len(strs) THEN <<>> ELSE piece(i) \o cat(i + 1)
    IN  cat(1)

\* Python: s.split(), which works on the characters of s.  An atom of the
\* model that stands for several characters, a blank or a dash among them, is
\* taken apart first, so that every blank and every dash is an atom of its own.
SplitWords(s) ==
    LET chars(a) ==
            CASE a = "    " -> <<" ", " ", " ", " ">>
              [] a = "---" -> <<"-", "-", "-">>
              [] a = " --- " -> <<" ", "-", "-", "-", " ">>
              [] a = " --> " -> <<" ", "-", "-", ">", " ">>
              [] a = " : " -> <<" ", ":", " ">>
              [] a = ": " -> <<":", " ">>
              [] a = "->>" -> <<"-", ">>">>
              [] a = "    participant " -> <<" ", " ", " ", " ", "participant", " ">>
              [] a = "    note over " -> <<" ", " ", " ", " ", "note", " ", "over", " ">>
              [] a = "subgraph " -> <<"subgraph", " ">>
              [] a = "flowchart TD" -> <<"flowchart", " ", "TD">>
              [] a = "stateDiagram-v2" -> <<"stateDiagram", "-", "v2">>
              [] a = "Cluster " -> <<"Cluster", " ">>
              [] a = "Untitled Cluster" -> <<"Untitled", " ", "Cluster">>
              [] a = "MSR Configuration" -> <<"MSR", " ", "Configuration">>
              [] OTHER -> <<a>>
        RECURSIVE explode(_)
        explode(u) == IF u = <<>> THEN <<>> ELSE chars(Head(u)) \o explode(Tail(u))
        RECURSIVE split(_)
        split(u) ==
            LET t == LStrip(u)
                n == CHOOSE k \in 1..(Len(t) + 1) :
                         /\ k = Len(t) + 1 \/ IsSpace(t[k])
                         /\ \A j \in 1..(k - 1) : ~IsSpace(t[j])
            IN  IF t = <<>> THEN <<>>
                ELSE <<SubSeq(t, 1, n - 1)>> \o split(SubSeq(t, n, Len(t)))
    IN  split(explode(s))

\* Line 652: re.search(r'#L(\d+)(?:-L(\d+))?$', href)
IsLineAnchor(href) ==
    LET n == DigitSuffixLen(href)
        rest == SubSeq(href, 1, DigitsEnd(href) - n)
        ends(t, q) == Len(t) >= Len(q) /\ SubSeq(t, Len(t) - Len(q) + 1, Len(t)) = q
        m == DigitRunBefore(rest, Len(rest) - 2)
    IN  /\ n >= 1
        /\ \/ ends(rest, <<"#", "L">>)
           \/ /\ ends(rest, <<"-", "L">>)
              /\ m >= 1
              /\ ends(SubSeq(rest, 1, Len(rest) - 2 - m), <<"#", "L">>)

\* Line 653: format_str; s.split()[0] raises when s holds no word.  The words
\* of SplitWords hold every dash as an atom of its own.
FormatCitation(s) ==
    LET w == SplitWords(s)
        last == w[Len(w)]
        RECURSIVE dash(_)
        dash(t) == IF t = <<>> THEN <<>>
                   ELSE (IF Head(t) = "-" THEN <<" ", "-", " ", "L">> ELSE <<Head(t)>>)
                        \o dash(Tail(t))
    IN  w[1] \o <<"(", "L">> \o dash(last) \o <<")", "&emsp;">>

\* Lines 485-552, detect_code_language, on the code texts of the model: their
\* atoms are "def", "SELECT", "0123456789", "x", the blank and the newline, so
\* that of the keyword tests only those for python ('def ' in code) and sql
\* (the word SELECT) can succeed
DetectCodeLanguage(code_text) ==
    LET code == Strip(code_text)
        chars(a) == IF a = "0123456789" THEN 10 ELSE IF a = "SELECT" THEN 6
                    ELSE IF a = "def" THEN 3 ELSE 1
        RECURSIVE len(_)
        len(t) == IF t = <<>> THEN 0 ELSE chars(Head(t)) + len(Tail(t))
        isWord(i) == i >= 1 /\ i <= Len(code) /\ code[i] \in {"x", "0123456789", "SELECT", "def"}
    IN  IF len(code) < 10 THEN <<>>
        ELSE IF \E i \in 1..(Len(code) - 1) : code[i] = "def" /\ code[i + 1] = " "
             THEN <<"python">>
        ELSE IF \E i \in 1..Len(code) : code[i] = "SELECT" /\ ~isWord(i - 1) /\ ~isWord(i + 1)
             THEN <<"sql">>
        ELSE <<>>

\* Line 574: the inline style hides the element
IsHidden(node) ==
    \/ IsSubstring(<<"display", ":", " ", "none">>, AttrOr(node.style))
    \/ IsSubstring(<<"visibility", ":", " ", "hidden">>, AttrOr(node.style))

\* Line 578
SkippedNames == {"button", "script", "style", "noscript", "iframe", "header", "footer"}

\* Line 618: node.select_one('svg[id^="mermaid-"]'), <<>> for None
MermaidSvg(node) ==
    LET svgs == SelectSeq(Descendants(node),
                          LAMBDA c : c.name = "svg" /\ c.id # Absent
                                     /\ StartsWith(c.id, <<"mermaid-">>))
    IN  IF svgs = <<>> THEN <<>> ELSE <<svgs[1]>>

\* Lines 622-630: the converter chosen for the svg element, "none" when
\* mermaid_output stays None
DiagramKind(svg) ==
    LET diagram_type == AttrOr(svg.role) IN
    IF IsSubstring(<<"flowchart">>, diagram_type) THEN "flowchart"
    ELSE IF IsSubstring(<<"class">>, diagram_type) THEN "class"
    ELSE IF IsSubstring(<<"sequence">>, diagram_type) THEN "sequence"
    ELSE IF IsSubstring(<<"state", "Diagram">>, diagram_type) THEN "stateDiagram"
    ELSE "none"

\* Lines 619-630: mermaid_output, <<>> for None; raised when the converter
\* raised.  soup.find_all('g', class_='node') of line 368 finds the nodes of a
\* flowchart (class "node default") as well, before those of a state diagram
\* in the document; such a node holds no <p>.
MermaidOutput(node) ==
    LET svg == MermaidSvg(node)
        kind == IF svg = <<>> THEN "none" ELSE DiagramKind(svg[1])
        d == svg[1].diagram
        found == [i \in 1..Len(d.nodeElems) |->
                     StNode(d.nodeElems[i].id, Absent, d.nodeElems[i].transform)]
                 \o d.stNodeElems
        st == ConvertStatediagram(found, d.stPathElems, d.stLabelElems)
    IN  CASE kind = "flowchart" -> [raised |-> FALSE, text |-> ConvertFlowchart(d)]
          [] kind = "class" -> [raised |-> FALSE, text |-> ConvertClass(d)]
          [] kind = "sequence" -> [raised |-> FALSE, text |-> ConvertSequence(d)]
          [] kind = "stateDiagram" ->
                [raised |-> st.raised,
                 text |-> IF st.raised THEN <<>> ELSE MermaidBlock(st.lines)]
          [] OTHER -> [raised |-> FALSE, text |-> <<>>]

\* Lines 636-645: the block emitted for a pre element without diagram output
FencedCode(node) ==
    LET codes == FindAll(node, {"code"})
        code_text == IF codes # <<>> THEN GetText(codes[1], FALSE) ELSE GetText(node, FALSE)
        lang == IF codes # <<>> THEN DetectCodeLanguage(code_text) ELSE <<>>
    IN  <<Fence>> \o lang \o <<NL>> \o Strip(code_text) \o <<NL, Fence, NL, NL>>

\* Line 719
ErrorMarker(name) == <<"[ERROR_PROCESSING:", name, "]">>

\* Lines 690-704: the text of a table
TableText(node) ==
    LET rows == FindAll(node, {"tr"})
        esc(t, br) == LET RECURSIVE e(_)
                          e(u) == IF u = <<>> THEN <<>>
                                  ELSE (IF Head(u) = "|" THEN <<"\\", "|">>
                                        ELSE IF br /\ Head(u) = NL THEN <<" ", "<br>", " ">>
                                        ELSE <<Head(u)>>) \o e(Tail(u))
                      IN  e(t)
        cells(r) == FindAll(r, {"th", "td"})
        rowText(r, br) ==
            <<"|">> \o Join([i \in 1..Len(cells(r)) |-> esc(GetText(cells(r)[i], TRUE), br)], "|")
            \o <<"|">>
        sep == <<"|">> \o Join([i \in 1..Len(cells(rows[1])) |-> <<" --- ">>], "|") \o <<"|">>
        RECURSIVE body(_)
        body(i) == IF i > Len(rows) THEN <<>> ELSE rowText(rows[i], TRUE) \o <<NL>> \o body(i + 1)
    IN  IF rows = <<>> THEN <<>>
        ELSE rowText(rows[1], FALSE) \o <<NL>> \o sep \o <<NL>> \o body(2) \o <<NL>>

\* '\n'.join(prefix + line for line in text.split('\n'))
PrefixLines(prefix, text) ==
    LET ls == Split(text, NL) IN Join([i \in 1..Len(ls) |-> prefix \o ls[i]], NL)

\* Lines 583-716: does the body of the try statement raise for this node by
\* itself.  The link branch raises at line 653 when the link text holds no
\* word, the pre branch when the state-diagram converter raises.  text is the
\* stripped text of the children of a link.
BodyRaises(node, text) ==
    \/ node.name = "a" /\ IsLineAnchor(AttrOr(node.href)) /\ SplitWords(text) = <<>>
    \/ node.name = "pre" /\ MermaidOutput(node).raised

\* Lines 600 and 609: node.find_all('li', recursive=False)
DirectItems(node) == SelectSeq(node.children, LAMBDA c : c.name = "li")

\* Python: str(n) for n >= 0
RECURSIVE Decimal(_)
Decimal(n) ==
    LET digit(d) == (<<"0", "1", "2", "3", "4", "5", "6", "7", "8", "9">>)[d + 1]
    IN  IF n < 10 THEN <<digit(n)>> ELSE Decimal(n \div 10) \o <<digit(n % 10)>>

(***************************************************************************)
(* process_node as a function of the node.  printable tells whether printf *)
(* at line 718 can write to the standard output; when it cannot, printf    *)
(* raises inside the except clause and the exception leaves process_node.  *)
(* A call returns [raised, text].                                          *)
(***************************************************************************)
RECURSIVE ProcessNode(_, _)
RECURSIVE ProcessChildren(_, _)
RECURSIVE ListItems(_, _, _, _)
RECURSIVE TryBody(_, _)

\* ''.join(process_node(child) for child in children); a call that raises
\* ends the join
ProcessChildren(children, printable) ==
    IF children = <<>> THEN [raised |-> FALSE, text |-> <<>>]
    ELSE LET h == ProcessNode(Head(children), printable) IN
         IF h.raised THEN h
         ELSE LET t == ProcessChildren(Tail(children), printable) IN
              IF t.raised THEN t ELSE [raised |-> FALSE, text |-> h.text \o t.text]

\* Lines 599-603 and 608-612: the item lines of the li elements from the i-th
\* on; numbered tells ol from ul
ListItems(lis, i, numbered, printable) ==
    IF i > Len(lis) THEN [raised |-> FALSE, items |-> <<>>]
    ELSE LET c == ProcessChildren(lis[i].children, printable)
             content == Strip(c.text)
             mark == IF numbered THEN Decimal(i) \o <<".", " ">> ELSE <<"*", " ">>
         IN  IF c.raised THEN [raised |-> TRUE, items |-> <<>>]
             ELSE LET rest == ListItems(lis, i + 1, numbered, printable) IN
                  IF rest.raised THEN rest
                  ELSE [raised |-> FALSE,
                        items |-> (IF content # <<>> THEN <<mark \o content>> ELSE <<>>)
                                  \o rest.items]

\* Lines 583-714: the body of the try statement.  It binds result_md or
\* returns a text (Bound), ends without binding result_md (NotBound), or
\* raises, by itself or because a call of process_node it makes raises
TryBody(node, printable) ==
    LET Bound(text) == [raised |-> FALSE, assigned |-> TRUE, text |-> text]
        NotBound == [raised |-> FALSE, assigned |-> FALSE, text |-> <<>>]
        Raised == [raised |-> TRUE, assigned |-> FALSE, text |-> <<>>]
        name == node.name
        c == ProcessChildren(node.children, printable)
        content == c.text
        stripped == Strip(content)
        items == ListItems(DirectItems(node), 1, name = "ol", printable)
        level == CHOOSE k \in 1..6 : name = (<<"h1", "h2", "h3", "h4", "h5", "h6">>)[k]
        href == AttrOr(node.href)
        linkText == IF IsLineAnchor(href) THEN FormatCitation(stripped) ELSE stripped
        summaries == FindAll(node, {"summary"})
        summary == IF summaries # <<>> THEN ProcessNode(summaries[1], printable)
                   ELSE [raised |-> FALSE, text |-> <<"Details">>]
        details ==
            ProcessChildren(SelectSeq(node.children, LAMBDA k : k.name # "summary"), printable)
        \* Lines 616-645, for the outcome m of lines 619-630
        preBlock(m) == IF m.raised THEN Raised
                       ELSE IF m.text # <<>> THEN Bound(<<NL>> \o m.text \o <<NL, NL>>)
                       ELSE Bound(FencedCode(node))
        \* Line 653: the index into the empty list of words
        linkRaises == IsLineAnchor(href) /\ SplitWords(stripped) = <<>>
    IN  CASE name = "p" ->
                 IF c.raised THEN Raised
                 ELSE IF stripped # <<>> THEN Bound(stripped \o <<NL, NL>>) ELSE NotBound
          [] name \in {"h1", "h2", "h3", "h4", "h5", "h6"} ->
                 IF GetText(node, TRUE) # <<>>
                 THEN Bound([i \in 1..level |-> "#"] \o <<" ">> \o GetText(node, TRUE)
                            \o <<NL, NL>>)
                 ELSE NotBound
          [] name \in {"ul", "ol"} ->
                 IF items.raised THEN Raised
                 ELSE IF items.items # <<>> THEN Bound(Join(items.items, NL) \o <<NL, NL>>)
                 ELSE NotBound
          [] name = "pre" ->
                 preBlock(MermaidOutput(node))
          [] name = "a" ->
                 IF c.raised \/ linkRaises THEN Raised
                 ELSE IF href # <<>>
                      THEN Bound(<<"[">> \o linkText \o <<"](">> \o href \o <<")">>)
                 ELSE Bound(linkText)
          [] name = "img" ->
                 IF AttrOr(node.src) # <<>>
                 THEN Bound(<<"![">> \o AttrOr(node.alt) \o <<"](">> \o node.src
                            \o <<")", NL, NL>>)
                 ELSE NotBound
          [] name = "blockquote" ->
                 IF c.raised THEN Raised
                 ELSE IF stripped # <<>>
                      THEN Bound(PrefixLines(<<">", " ">>, stripped) \o <<NL, NL>>)
                 ELSE NotBound
          [] name = "hr" -> Bound(<<NL, "---", NL, NL>>)
          [] name \in {"strong", "b"} ->
                 IF c.raised THEN Raised ELSE Bound(<<"**">> \o stripped \o <<"**">>)
          [] name \in {"em", "i"} ->
                 IF c.raised THEN Raised ELSE Bound(<<"*">> \o stripped \o <<"*">>)
          [] name = "code" ->   \* the atom "#tick" stands for the backquote
                 Bound(<<"#tick">> \o GetText(node, TRUE) \o <<"#tick">>)
          [] name = "br" -> Bound(<<" ", " ", NL>>)
          [] name = "table" -> Bound(TableText(node))
          [] name = "details" ->
                 IF summary.raised THEN Raised
                 ELSE IF details.raised THEN Raised
                 ELSE Bound(<<">", " ", "**">> \o Strip(summary.text) \o <<"**", NL>>
                            \o PrefixLines(<<">", " ">>, Strip(details.text)) \o <<NL, NL>>)
          [] OTHER ->
                 IF c.raised THEN Raised
                 ELSE Bound(IF stripped # <<>> THEN content \o <<NL, NL>> ELSE <<>>)

\* Lines 566-581: what process_node returns before the try statement, <<>>
\* when it goes on to line 581
EarlyReturn(node) ==
    IF node.name = "#text" THEN <<node.string>>
    ELSE IF IsHidden(node) \/ node.name \in SkippedNames THEN << <<>> >>
    ELSE <<>>

\* Lines 716-719: the except clause, which reports through printf and
\* returns the marker
ExceptClause(node, printable) ==
    IF printable THEN [raised |-> FALSE, text |-> ErrorMarker(node.name)]
    ELSE [raised |-> TRUE, text |-> <<>>]

\* Lines 554-721
ProcessNode(node, printable) ==
    IF EarlyReturn(node) # <<>> THEN [raised |-> FALSE, text |-> EarlyReturn(node)[1]]
    ELSE LET b == TryBody(node, printable) IN
         IF b.raised THEN ExceptClause(node, printable)
         ELSE [raised |-> FALSE, text |-> IF b.assigned THEN b.text ELSE <<>>]

(***************************************************************************)
(* The DOM inputs of the model                                             *)
(***************************************************************************)
(***************************************************************************)
(* The elements below an svg element, in document order, for what the      *)
(* selectors of the converters find in it; a diagram holds the elements of *)
(* one kind of diagram.                                                    *)
(*   flowchart   <g class="cluster"> with <g class="cluster-label"> and    *)
(*               <rect>, then <g class="node default"> with                *)
(*               <g class="label">, then <path>; a label holds its text in *)
(*               <foreignObject><div> (lines 36-41 and 55-62) and is left  *)
(*               out when the text is Absent                               *)
(*   sequence    the <text> elements in the order of textElems, the label  *)
(*               of an actor group inside its <g> after the                *)
(*               <rect class="actor">, then the <line> and <path> of the   *)
(*               messages                                                  *)
(*   state       <g class="node"> with a <p>, then <path>, then            *)
(*               <g class="edgeLabel"> with a <p>; no <p> when it is       *)
(*               Absent                                                    *)
(***************************************************************************)
DiagramDom(d) ==
    LET Str(t) == IF t = <<>> THEN <<>> ELSE <<TextNode(t)>>
        LabelDom(t) == Node("g", <<Node("foreignObject", <<Node("div", Str(t))>>)>>)
        FlowNodeDom(e) == Node("g", IF e.label = Absent THEN <<>> ELSE <<LabelDom(e.label)>>)
        ClusterDom(e) ==
            Node("g", (IF e.title = Absent THEN <<>> ELSE <<LabelDom(e.title)>>)
                      \o (IF e.rect.kind = "none" THEN <<>> ELSE <<Node("rect", <<>>)>>))
        TextDom(t) == Node("text", Str(t.text))
        ActorDom(g) == Node("g", <<Node("rect", <<>>), TextDom(g.label)>>)
        RECURSIVE SeqDom(_, _)
        SeqDom(groups, ts) ==
            IF ts = <<>> THEN <<>>
            ELSE IF groups # <<>> /\ Head(ts) = Head(groups).label
                 THEN <<ActorDom(Head(groups))>> \o SeqDom(Tail(groups), Tail(ts))
            ELSE <<TextDom(Head(ts))>> \o SeqDom(groups, Tail(ts))
        StateDom(e) == Node("g", IF e.p = Absent THEN <<>> ELSE <<Node("p", Str(e.p))>>)
    IN  [i \in 1..Len(d.clusterElems) |-> ClusterDom(d.clusterElems[i])]
        \o [i \in 1..Len(d.nodeElems) |-> FlowNodeDom(d.nodeElems[i])]
        \o [i \in 1..Len(d.linkPaths) |-> Node("path", <<>>)]
        \o SeqDom(d.actorGroups, d.textElems)
        \o [i \in 1..Len(d.msgElems) |-> Node(d.msgElems[i].tag, <<>>)]
        \o [i \in 1..Len(d.stNodeElems) |-> StateDom(d.stNodeElems[i])]
        \o [i \in 1..Len(d.stPathElems) |-> Node("path", <<>>)]
        \o [i \in 1..Len(d.stLabelElems) |-> StateDom(d.stLabelElems[i])]

\* An svg element: a text and the elements of the diagram
Svg(id, role, diagram) ==
    [Node("svg", <<TextNode(<<"x">>)>> \o DiagramDom(diagram)) EXCEPT
        !.id = id, !.role = role, !.diagram = diagram]
Link(href, children) == [Node("a", children) EXCEPT !.href = href]

\* Two nodes in a cluster and an edge between them
FlowDiagram ==
    [EmptyDiagram EXCEPT
        !.nodeElems = << [id |-> <<"flowchart", "-", "A", "-", "1">>, label |-> <<"a">>,
                          transform |-> Translate(2, 2)],
                         [id |-> <<"flowchart", "-", "B", "-", "2">>, label |-> <<"b">>,
                          transform |-> Translate(20, 20)] >>,
        !.clusterElems = << [id |-> <<"c", "1">>, title |-> <<"a">>, rect |-> Rect(1, 1, 4, 4)] >>,
        !.linkPaths = << <<"L", "_", "A", "_", "B", "_", "0">> >>]

\* Two actors and a message with its label
SeqDiagram ==
    [EmptyDiagram EXCEPT
        !.actorGroups = << Actor(<<"Client">>, 8, 4, 0), Actor(<<"Server">>, 48, 4, 0) >>,
        !.textElems = << Actor(<<"Client">>, 8, 4, 0).label, Actor(<<"Server">>, 48, 4, 0).label,
                         Text(30, 20, <<"reply">>) >>,
        !.msgElems = << MsgLine(10, 20, 50, 20) >>]

\* start -> Idle -> end
StateDiagram ==
    [EmptyDiagram EXCEPT
        !.stNodeElems = << StartNode, IdleNode, EndNode >>,
        !.stPathElems = << PathTo(0, 0, 0, 100), PathTo(0, 100, 0, 200) >>,
        !.stLabelElems = << StLabel(<<"go">>, Translate(0, 50)) >>]

\* The same with one more node, which has no transform
FaultyStateDiagram ==
    [StateDiagram EXCEPT
        !.stNodeElems = << StartNode, IdleNode, EndNode,
                           StNode(<<"s", "-", "L", "o", "s", "t">>, <<"Lost">>, NoTransform) >>]

MermaidId == <<"mermaid-", "1">>
FlowchartRole == <<"flowchart", "-", "v", "2">>
StateRole == <<"state", "Diagram">>

\* The children of the pre elements: svg elements of every kind with and
\* without content, with an unknown or absent role, with another or no id;
\* a code element long enough for the language detection, and a text
PreChildShapes ==
    { Svg(MermaidId, FlowchartRole, FlowDiagram), Svg(MermaidId, FlowchartRole, EmptyDiagram),
      Svg(MermaidId, <<"class">>, EmptyDiagram),
      Svg(MermaidId, <<"sequence">>, SeqDiagram), Svg(MermaidId, <<"sequence">>, EmptyDiagram),
      Svg(MermaidId, StateRole, StateDiagram), Svg(MermaidId, StateRole, EmptyDiagram),
      Svg(MermaidId, StateRole, FaultyStateDiagram),
      Svg(MermaidId, Absent, FlowDiagram), Svg(MermaidId, <<"pie">>, EmptyDiagram),
      Svg(<<"chart-", "1">>, FlowchartRole, FlowDiagram), Svg(Absent, <<"sequence">>, SeqDiagram),
      Node("code", <<TextNode(<<"def", " ", "0123456789", NL>>)>>),
      TextNode(<<"x", NL>>) }

PreTrees(n) == {Node("pre", c) : c \in SeqUpTo(PreChildShapes, n)}

\* The nodes put into the containers: texts, links (plain, citation, and a
\* citation link without text, whose conversion raises), pre elements with a
\* state diagram (sound and faulty), a hidden element, a skipped element, and
\* elements without children
LeafShapes ==
    { TextNode(<<"x">>), TextNode(<<" ">>),
      Link(<<"u">>, <<TextNode(<<"x">>)>>),
      Link(<<"u", "#", "L", "1", "-", "L", "2">>, <<TextNode(<<"x", " ", "1", "-", "2">>)>>),
      Link(<<"u", "#", "L", "1">>, <<>>),
      Node("pre", <<Svg(MermaidId, StateRole, StateDiagram)>>),
      Node("pre", <<Svg(MermaidId, StateRole, FaultyStateDiagram)>>),
      [Node("span", <<TextNode(<<"x">>)>>) EXCEPT
          !.style = <<"display", ":", " ", "none">>],
      Node("script", <<TextNode(<<"x">>)>>),
      Node("br", <<>>),
      [Node("img", <<>>) EXCEPT !.src = <<"u">>, !.alt = <<"x">>],
      Node("code", <<TextNode(<<" ", "x">>)>>),
      Svg(MermaidId, StateRole, StateDiagram),
      Node("template", <<Node("code", <<TextNode(<<"x">>)>>)>>) }

\* The containers: the children directly, or each wrapped in an li, a td or
\* next to a summary
Containers(c) ==
    LET wrap(n) == [i \in 1..Len(c) |-> Node(n, <<c[i]>>)] IN
    { Node("p", c), Node("div", c), Node("strong", c), Node("em", c), Node("blockquote", c),
      Node("h2", c), Link(<<"u">>, c), Node("ul", wrap("li")), Node("ol", wrap("li")),
      Node("table", <<Node("tr", wrap("td"))>>),
      Node("details", <<Node("summary", <<TextNode(<<"x">>)>>)>> \o c),
      Node("div", <<Node("p", c), Node("hr", <<>>)>>) }

ContainerTrees(n) == UNION {Containers(c) : c \in SeqUpTo(LeafShapes, n)}

\* A list item with a text and what follows it
Item(t, rest) == Node("li", <<TextNode(<<t>>)>> \o rest)

\* Lists in lists: a list of three items, the first holding a list whose
\* second item holds a list again; a list that stands in a list without an li
\* between them; both kinds of list at the two outer levels
NestedListTrees ==
    { Node(outer,
           << Item("a", << Node(inner,
                                << Item("b", <<>>),
                                   Item("c", << Node("ul", << Item("d", <<>>) >>) >>) >>) >>),
              Node("li", <<>>),
              Item("e", <<>>) >>)
      : outer \in {"ul", "ol"}, inner \in {"ul", "ol"} }
    \cup
    { Node(outer, << Item("a", <<>>), Node(inner, << Item("b", <<>>) >>), Item("e", <<>>) >>)
      : outer \in {"ul", "ol"}, inner \in {"ul", "ol"} }

\* Lists of up to eleven items, each holding the text x
LongListTrees ==
    { Node(name, [i \in 1..n |-> Item("x", <<>>)]) : name \in {"ul", "ol"}, n \in 9..11 }

\* An element with an inline style that holds a text
Styled(name, style) == [Node(name, <<TextNode(<<"h">>)>>) EXCEPT !.style = style]

\* The inline styles that hide an element, with and without a blank after
\* the colon
HidingStyles ==
    { <<"display", ":", " ", "none">>, <<"display", ":", "none">>,
      <<"visibility", ":", " ", "hidden">>, <<"visibility", ":", "hidden">> }

\* A hidden element, alone and next to a text in a paragraph
HiddenTrees ==
    UNION { { Styled("span", st), Node("p", <<Styled("div", st), TextNode(<<"x">>)>>) }
            : st \in HidingStyles }

(***************************************************************************)
(* process_node as a state machine: one call.  result_md is the local of   *)
(* line 581 and, when the call has returned, the text it returned; the     *)
(* calls process_node makes for the children are calls of the function.    *)
(***************************************************************************)
\* A citation link around a rule, a table and a diagram, and a diagram whose
\* role names another kind than its elements
CitedBlockTrees ==
    LET cite(c) == Link(<<"u", "#", "L", "1", "-", "L", "2">>, c) IN
    { cite(<<Node("hr", <<>>)>>),
      cite(<<Node("table", <<Node("tr", <<Node("td", <<TextNode(<<"x">>)>>)>>)>>)>>),
      cite(<<Node("pre", <<Svg(MermaidId, StateRole, StateDiagram)>>)>>),
      Node("pre", <<Svg(MermaidId, StateRole, FlowDiagram)>>),
      Node("div", <<Node("pre", <<Svg(MermaidId, StateRole, FlowDiagram)>>),
                    TextNode(<<"x">>)>>) }

DomInit ==
    /\ dpc = "start"
    /\ dom \in PreTrees(MaxPreChildren) \cup ContainerTrees(MaxChildren)
               \cup NestedListTrees \cup LongListTrees \cup HiddenTrees
               \cup CitedBlockTrees
    /\ result_md = <<>>
    /\ FlowIdle
    /\ SeqIdle
    /\ NormIdle
    /\ StateIdle
    /\ DriverIdle

\* Mutant of EnterProcessNode: line 581 is left out, result_md keeps the text
\* of the call before
EnterProcessNodeStale ==
    /\ dpc = "start"
    /\ IF EarlyReturn(dom) # <<>>
       THEN result_md' = EarlyReturn(dom)[1] /\ dpc' = "done"
       ELSE UNCHANGED result_md /\ dpc' = "try"
    /\ UNCHANGED dom
    /\ UNCHANGED <<flowVars, seqVars, normVars, stateVars, driverVars>>

\* Lines 566-581: the returns before the try statement, and result_md = ""
EnterProcessNode ==
    /\ dpc = "start"
    /\ IF EarlyReturn(dom) # <<>>
       THEN result_md' = EarlyReturn(dom)[1] /\ dpc' = "done"
       ELSE result_md' = <<>> /\ dpc' = "try"
    /\ UNCHANGED dom
    /\ UNCHANGED <<flowVars, seqVars, normVars, stateVars, driverVars>>

\* Lines 583-721: the try statement and the return of line 721.  A branch
\* that does not bind result_md leaves the value of line 581; the standard
\* output takes what printf writes or does not
ProcessNodeStep ==
    /\ dpc = "try"
    /\ \E printable \in BOOLEAN :
          LET b == TryBody(dom, printable)
              h == ExceptClause(dom, printable)
          IN  IF b.raised
              THEN IF h.raised THEN dpc' = "raised" /\ UNCHANGED result_md
                   ELSE dpc' = "done" /\ result_md' = h.text
              ELSE dpc' = "done" /\ result_md' = (IF b.assigned THEN b.text ELSE result_md)
    /\ UNCHANGED dom
    /\ UNCHANGED <<flowVars, seqVars, normVars, stateVars, driverVars>>

DomNext == EnterProcessNode \/ ProcessNodeStep

DomSpec == DomInit /\ [][DomNext]_vars

(***************************************************************************)
(* Successive calls.  The interpreter runs one call at a time; a call      *)
(* binds the parameter and runs the steps of the function.  The locals of  *)
(* the model keep the values of the call before until the steps of the new *)
(* call bind them again.                                                   *)
(***************************************************************************)
\* One node outside every cluster, no edge
OtherFlowDiagram ==
    [EmptyDiagram EXCEPT
        !.nodeElems = << [id |-> <<"flowchart", "-", "C", "-", "3">>, label |-> <<"c">>,
                          transform |-> Translate(30, 30)] >>,
        !.clusterElems = << [id |-> <<"c", "2">>, title |-> <<"b">>, rect |-> Rect(1, 1, 4, 4)] >>]

\* Two other actors, a message without label and a text that becomes a note
OtherSeqDiagram ==
    [EmptyDiagram EXCEPT
        !.actorGroups = << Actor(<<"Server">>, 8, 4, 0), Actor(<<"Store">>, 48, 4, 0) >>,
        !.textElems = << Actor(<<"Server">>, 8, 4, 0).label, Text(10, 60, <<"saved">>),
                         Actor(<<"Store">>, 48, 4, 0).label >>,
        !.msgElems = << MsgLine(50, 20, 10, 20) >>]

\* Idle -> Busy with a label
OtherStateDiagram ==
    [EmptyDiagram EXCEPT
        !.stNodeElems = << IdleNode, BusyNode >>,
        !.stPathElems = << PathTo(0, 100, 100, 100) >>,
        !.stLabelElems = << StLabel(<<"run">>, Translate(50, 100)) >>]

CallFlowInputs == {FlowDiagram, OtherFlowDiagram, EmptyDiagram}
CallSeqInputs == {SeqDiagram, OtherSeqDiagram, EmptyDiagram}
CallStateInputs == {StateDiagram, OtherStateDiagram, FaultyStateDiagram}
CallDomInputs ==
    { Node("pre", <<Svg(MermaidId, FlowchartRole, FlowDiagram)>>),
      Node("pre", <<Svg(MermaidId, <<"sequence">>, SeqDiagram)>>),
      Node("ol", <<Node("li", <<TextNode(<<"x">>)>>)>>),
      Node("p", <<TextNode(<<" ">>)>>), Node("img", <<>>),
      Node("p", <<Link(<<"u", "#", "L", "1">>, <<>>)>>) }

NoCallInProgress ==
    /\ fpc \in {"idle", "done"}
    /\ spc \in {"idle", "done", "no_participants"}
    /\ stpc \in {"idle", "done", "raised"}
    /\ dpc \in {"idle", "done", "raised"}

CallInit == FlowIdle /\ SeqIdle /\ NormIdle /\ StateIdle /\ DomIdle /\ DriverIdle

\* Line 12: convert_flowchart_svg_to_mermaid_text(svg_content)
CallFlowchart ==
    /\ NoCallInProgress
    /\ \E d \in CallFlowInputs :
          /\ nodeElems' = d.nodeElems
          /\ clusterElems' = d.clusterElems
          /\ linkPaths' = d.linkPaths
    /\ fpc' = "start"
    /\ UNCHANGED <<nodes, id_map, clusters, edges, mermaid>>
    /\ UNCHANGED <<seqVars, normVars, stateVars, domVars, driverVars>>

\* Line 245: convert_sequence_svg_to_mermaid_text(svg_content)
CallSequence ==
    /\ NoCallInProgress
    /\ \E d \in CallSeqInputs :
          /\ actorGroups' = d.actorGroups
          /\ textElems' = d.textElems
          /\ msgElems' = d.msgElems
    /\ spc' = "start"
    /\ UNCHANGED <<participants, actor_labels, texts, used_texts, elements, seq_mermaid>>
    /\ UNCHANGED <<flowVars, normVars, stateVars, domVars, driverVars>>

\* Line 361: convert_statediagram_svg_to_mermaid_text(soup)
CallStatediagram ==
    /\ NoCallInProgress
    /\ \E d \in CallStateInputs :
          /\ stNodeElems' = d.stNodeElems
          /\ stPathElems' = d.stPathElems
          /\ stLabelElems' = d.stLabelElems
    /\ stpc' = "start"
    /\ UNCHANGED <<node_data, edge_data, matched_edges, mermaid_lines>>
    /\ UNCHANGED <<flowVars, seqVars, normVars, domVars, driverVars>>

\* Line 554: process_node(node)
CallProcessNode ==
    /\ NoCallInProgress
    /\ dom' \in CallDomInputs
    /\ dpc' = "start"
    /\ UNCHANGED result_md
    /\ UNCHANGED <<flowVars, seqVars, normVars, stateVars, driverVars>>

CallNext ==
    \/ CallFlowchart \/ CallSequence \/ CallStatediagram \/ CallProcessNode
    \/ ExtractNodes \/ ExtractClusters \/ NestClustersStep \/ AssignNodes \/ ResolveEdges \/ Emit
    \/ ExtractParticipants \/ CollectTextsStep \/ ProcessMessages \/ ProcessNotes
    \/ EmitSequenceStep
    \/ CollectStateNodes \/ CollectStateEdges \/ MatchStateEdges \/ EmitStateDiagram
    \/ EnterProcessNode \/ ProcessNodeStep

CallSpec == CallInit /\ [][CallNext]_vars

(***************************************************************************)
(* deepwiki2markdown: the browser and the loop over the pages of a URL.    *)
(* The function starts after webdriver.Chrome has returned the driver      *)
(* (line 760).  A step of the try statement ends or raises an exception    *)
(* of a class below Exception; of the file system the state holds the      *)
(* pages whose file was written.  printf writes to the standard output and *)
(* raises when that fails (an encoding that lacks a character of the text, *)
(* a closed pipe).                                                         *)
(***************************************************************************)
\* What line 775 finds: no element (None), or the li elements of the lists of
\* the sidebar in order, "a" for one with a link that has a href (line 785)
SidebarShapes == {Absent} \cup SeqUpTo({"a", "li"}, MaxSidebar)

DriverInit ==
    /\ wpc = "created"
    /\ sidebar \in SidebarShapes
    /\ urls = 0 /\ page = 0 /\ saved = {}
    /\ exc = "none" /\ caught = "none" /\ quits = 0 /\ propagated = FALSE
    /\ FlowIdle
    /\ SeqIdle
    /\ NormIdle
    /\ StateIdle
    /\ DomIdle

\* A statement of the try block raises: control goes to line 817
Raise(step) ==
    /\ exc' = step
    /\ wpc' = "except"
    /\ UNCHANGED <<sidebar, urls, page, saved, caught, quits, propagated>>

\* Lines 764-767: driver.get(url)
OpenUrl ==
    /\ wpc = "created"
    /\ \/ /\ wpc' = "loaded"
          /\ UNCHANGED <<sidebar, urls, page, saved, exc, caught, quits, propagated>>
       \/ Raise("navigation")
    /\ UNCHANGED <<flowVars, seqVars, normVars, stateVars, domVars>>

\* Lines 770-789: the directory and the list urls; sidebar.find_all raises on
\* None (line 776)
ReadSidebar ==
    /\ wpc = "loaded"
    /\ \/ /\ sidebar # Absent
          /\ urls' = Len(SelectSeq(sidebar, LAMBDA li : li = "a"))
          /\ page' = 1
          /\ wpc' = IF urls' = 0 THEN "finally" ELSE "open"
          /\ UNCHANGED <<sidebar, saved, exc, caught, quits, propagated>>
       \/ /\ sidebar = Absent
          /\ Raise("sidebar")
       \/ Raise("makedirs")
    /\ UNCHANGED <<flowVars, seqVars, normVars, stateVars, domVars>>

\* Lines 791-797: the next url of the loop, driver.get(url)
OpenPage ==
    /\ wpc = "open"
    /\ \/ /\ wpc' = "convert"
          /\ UNCHANGED <<sidebar, urls, page, saved, exc, caught, quits, propagated>>
       \/ Raise("navigation")
    /\ UNCHANGED <<flowVars, seqVars, normVars, stateVars, domVars>>

\* Lines 800-807: the content is selected and converted
ConvertPage ==
    /\ wpc = "convert"
    /\ \/ /\ wpc' = "write"
          /\ UNCHANGED <<sidebar, urls, page, saved, exc, caught, quits, propagated>>
       \/ Raise("conversion")
    /\ UNCHANGED <<flowVars, seqVars, normVars, stateVars, domVars>>

\* Lines 810-816: the file is written; then the loop goes on or ends.  open
\* or write raises (lines 814-815), or printf raises at line 816, when the
\* file is written and closed
WritePage ==
    /\ wpc = "write"
    /\ \/ /\ saved' = saved \cup {page}
          /\ page' = page + 1
          /\ wpc' = IF page + 1 > urls THEN "finally" ELSE "open"
          /\ UNCHANGED <<sidebar, urls, exc, caught, quits, propagated>>
       \/ Raise("write")
       \/ /\ saved' = saved \cup {page}
          /\ exc' = "write"
          /\ wpc' = "except"
          /\ UNCHANGED <<sidebar, urls, page, caught, quits, propagated>>
    /\ UNCHANGED <<flowVars, seqVars, normVars, stateVars, domVars>>

\* Lines 817-818: except Exception as e; the exception is caught, and printf
\* reports it or raises an exception of its own, which no handler catches
HandleException ==
    /\ wpc = "except"
    /\ caught' = exc
    /\ exc' \in {"none", "report"}
    /\ wpc' = "finally"
    /\ UNCHANGED <<sidebar, urls, page, saved, quits, propagated>>
    /\ UNCHANGED <<flowVars, seqVars, normVars, stateVars, domVars>>

\* Lines 819-822: the finally clause calls driver.quit().  When the call
\* returns, an exception still in flight leaves the function after it; when
\* the call raises, its exception leaves the function
Finally ==
    /\ wpc = "finally"
    /\ quits' = quits + 1
    /\ \/ /\ propagated' = (exc # "none")
          /\ UNCHANGED exc
       \/ /\ exc' = "quit"
          /\ propagated' = TRUE
    /\ wpc' = "returned"
    /\ UNCHANGED <<sidebar, urls, page, saved, caught>>
    /\ UNCHANGED <<flowVars, seqVars, normVars, stateVars, domVars>>

DriverNext ==
    OpenUrl \/ ReadSidebar \/ OpenPage \/ ConvertPage \/ WritePage \/ HandleException
    \/ Finally

\* The interpreter goes on with the function until it returns
DriverSpec == DriverInit /\ [][DriverNext]_vars /\ WF_vars(DriverNext)

(***************************************************************************)
(* Properties of convert_flowchart_svg_to_mermaid_text                     *)
(***************************************************************************)
NodeIds == {nodes[i].key : i \in 1..Len(nodes)}

ClusterIds == {clusters[i].key : i \in 1..Len(clusters)}

\* Number of occurrences of base id n in the member lists of all clusters
Memberships(n) ==
    Cardinality(UNION {{<<i, k>> : k \in {m \in 1..Len(clusters[i].val.nodes) :
                                              clusters[i].val.nodes[m] = n}}
                       : i \in 1..Len(clusters)})

\* Box a holds box b; box a holds box b and differs from it
BoxHolds(a, b) == a[1] <= b[1] /\ a[2] <= b[2] /\ b[3] <= a[3] /\ b[4] <= a[4]
BoxHoldsProperly(a, b) == BoxHolds(a, b) /\ a # b

RectOf(cid) == DictGet(clusters, cid).rect

\* The indices of the node lines of base id n
NodeLines(n) == {k \in 1..Len(mermaid) : mermaid[k].kind = "node" /\ mermaid[k].id = n}

\* Line k lies between the 'subgraph' line of cluster cid and its 'end' line
InBlock(k, cid) ==
    \E j \in 1..(k - 1) :
        /\ mermaid[j].kind = "subgraph"
        /\ mermaid[j].id = cid
        /\ \A m \in (j + 1)..k :
              ~(mermaid[m].kind = "end" /\ mermaid[m].indent = mermaid[j].indent)

\* The node elements that step 1 keeps
FlowNodeElems == {i \in 1..Len(nodeElems) : StartsWith(nodeElems[i].id, FlowchartPrefix)}

\* The position of node element i lies in the rectangle of cluster cid
PosInCluster(i, cid) ==
    /\ NodePos(nodeElems[i]) # <<>>
    /\ LET pos == NodePos(nodeElems[i])
           r == RectOf(cid)
       IN  r[1] <= pos[1] /\ pos[1] <= r[3] /\ r[2] <= pos[2] /\ pos[2] <= r[4]

\* C1: after the node-to-cluster assignment every canonical node id occurs in the
\* member list of at most one cluster, and there at most once.
C1_NodeUniqueness ==
    fpc \in {"assigned", "edges", "done"} => \A n \in NodeIds : Memberships(n) <= 1

\* C2: whenever cluster B is recorded in the children list of cluster A, the box
\* of A holds the box of B and no third cluster C has A properly holding C and C
\* properly holding B.
C2_Containment ==
    fpc \in {"nested", "assigned", "edges", "done"} =>
        \A a \in ClusterIds : \A b \in Range(DictGet(clusters, a).children) :
            /\ b \in ClusterIds
            /\ BoxHolds(RectOf(a), RectOf(b))
            /\ ~ \E c \in ClusterIds :
                    BoxHoldsProperly(RectOf(a), RectOf(c)) /\ BoxHoldsProperly(RectOf(c), RectOf(b))

\* C2 witness: three boxes nested in each other; the middle one is the only
\* child of the outer one and the inner one the only child of the middle one.
C2_Witness ==
    /\ fpc = "nested"
    /\ \E a, b, c \in ClusterIds :
          /\ BoxHoldsProperly(RectOf(a), RectOf(b))
          /\ BoxHoldsProperly(RectOf(b), RectOf(c))
          /\ DictGet(clusters, a).children = <<b>>
          /\ DictGet(clusters, b).children = <<c>>

\* The split indices of a path id at which both halves are known node ids
WorkingSplits(path_id) ==
    IF ~StartsWith(path_id, LinkPrefix) THEN {}
    ELSE LET parts == Split(SubSeq(path_id, 3, Len(path_id)), "_") IN
         {i \in 1..(Len(parts) - 1) :
             SplitSource(parts, i) \in NodeIds /\ SplitTarget(parts, i) \in NodeIds}

\* The source and target that split index i of a path id yields
SplitPair(path_id, i) ==
    LET parts == Split(SubSeq(path_id, 3, Len(path_id)), "_") IN
    [source |-> SplitSource(parts, i), target |-> SplitTarget(parts, i)]

EdgeLineIdx == {k \in 1..Len(mermaid) : mermaid[k].kind = "edge"}

\* C3: both ends of every emitted edge line are extracted node ids, every edge
\* line comes from a split of some path id with both halves known, and a path id
\* without such a split yields no line.
C3_EdgeSoundness ==
    fpc = "done" =>
        /\ \A k \in EdgeLineIdx :
              /\ mermaid[k].id \in NodeIds
              /\ mermaid[k].target \in NodeIds
              /\ \E p \in Range(linkPaths) : \E i \in WorkingSplits(p) :
                    SplitPair(p, i) = [source |-> mermaid[k].id, target |-> mermaid[k].target]
        /\ Cardinality(EdgeLineIdx)
              <= Cardinality({i \in 1..Len(linkPaths) : WorkingSplits(linkPaths[i]) # {}})

\* C3 witness: one path id resolves and is emitted, another one has a known
\* source and no known target and leaves no line.
C3_Witness ==
    /\ fpc = "done"
    /\ Cardinality(EdgeLineIdx) = 1
    /\ \E p \in Range(linkPaths) :
          /\ StartsWith(p, LinkPrefix)
          /\ WorkingSplits(p) = {}
          /\ SplitPair(p, 1).source \in NodeIds

\* The edge a path id must yield: the pair at its smallest working split
RECURSIVE FirstSplitEdges(_)
FirstSplitEdges(paths) ==
    IF paths = <<>> THEN <<>>
    ELSE LET W == WorkingSplits(Head(paths)) IN
         (IF W = {} THEN <<>>
          ELSE <<SplitPair(Head(paths), CHOOSE i \in W : \A j \in W : i <= j)>>)
         \o FirstSplitEdges(Tail(paths))

\* C4: each path id yields at most one edge, the pair at the smallest split
\* index at which both halves are known node ids, and the emitted edge lines are
\* exactly these pairs.
C4_FirstWorkingSplit ==
    /\ fpc \in {"edges", "done"} => edges = FirstSplitEdges(linkPaths)
    /\ fpc = "done" =>
          {[source |-> mermaid[k].id, target |-> mermaid[k].target] : k \in EdgeLineIdx}
              = Range(FirstSplitEdges(linkPaths))

\* C4 witness: a path id with two working splits, emitted with the pair of the
\* first one only.
C4_Witness ==
    /\ fpc = "done"
    /\ \E p \in Range(linkPaths) :
          /\ Cardinality(WorkingSplits(p)) >= 2
          /\ SplitPair(p, 1) # SplitPair(p, 2)
          /\ \E k \in EdgeLineIdx :
                SplitPair(p, 1) = [source |-> mermaid[k].id, target |-> mermaid[k].target]
          /\ ~ \E k \in EdgeLineIdx :
                SplitPair(p, 2) = [source |-> mermaid[k].id, target |-> mermaid[k].target]

\* C5: every extracted canonical node id appears on exactly one node line of
\* the emitted notation.
C5_OneNodeLine ==
    fpc = "done" => \A n \in NodeIds : Cardinality(NodeLines(n)) = 1

\* The node elements whose base id no other node element shares
SingleElems ==
    {i \in FlowNodeElems :
        \A j \in FlowNodeElems : BaseId(nodeElems[j].id) = BaseId(nodeElems[i].id) => j = i}

\* C6: a node is emitted as a free-floating line exactly if no cluster rectangle
\* holds its position, and a node whose position lies in a cluster rectangle is
\* emitted inside the subgraph block of that cluster.
C6_FloatingIffUnclustered ==
    fpc = "done" =>
        \A i \in SingleElems :
            LET n == BaseId(nodeElems[i].id) IN
            /\ (\E k \in NodeLines(n) : \A c \in ClusterIds : ~InBlock(k, c))
                  <=> (\A c \in ClusterIds : ~PosInCluster(i, c))
            /\ \A c \in ClusterIds :
                  PosInCluster(i, c) => \E k \in NodeLines(n) : InBlock(k, c)

(***************************************************************************)
(* Properties of convert_sequence_svg_to_mermaid_text                      *)
(***************************************************************************)
\* The emitted message and note lines, in emitted order
SeqBody == SelectSeq(seq_mermaid, LAMBDA l : l.kind \in {"message", "note"})

\* The emitted participant names, in emitted order
ParticipantLines ==
    LET ls == SelectSeq(seq_mermaid, LAMBDA l : l.kind = "participant")
    IN  [i \in 1..Len(ls) |-> ls[i].a]

Permutations1(n) == {f \in [1..n -> 1..n] : \A i, j \in 1..n : f[i] = f[j] => i = j}

\* The sequence a is b with some of its places left out
RECURSIVE IsSubsequence(_, _)
IsSubsequence(a, b) ==
    IF a = <<>> THEN TRUE
    ELSE IF b = <<>> THEN FALSE
    ELSE IF Head(a) = Head(b) THEN IsSubsequence(Tail(a), Tail(b))
    ELSE IsSubsequence(a, Tail(b))

\* The vertical positions (in halves) of the message elements of the svg
\* whose geometry can be read, in document order
MessagePositions ==
    LET ok == SelectSeq(msgElems, LAMBDA m : m.kind = "ok")
    IN  [i \in 1..Len(ok) |-> ok[i].y1 + ok[i].y2]

\* The vertical positions (in halves) and the texts of the text elements of
\* the svg with numeric coordinates, in document order
TextPositions ==
    LET ok == SelectSeq(textElems, LAMBDA t : t.kind = "text")
    IN  [i \in 1..Len(ok) |-> <<2 * ok[i].y, Strip(ok[i].text)>>]

\* C7: the discovered elements are messages, in the order of the message
\* elements of the document, and then notes, in the order of the text
\* elements of the document; along the emitted order of the messages and
\* notes the vertical coordinate never decreases, and elements of equal
\* vertical coordinate keep their discovery order.
C7_SequenceOrdering ==
    spc = "done" =>
        LET ms == SelectSeq(elements, LAMBDA e : e.line.kind = "message")
            ns == SelectSeq(elements, LAMBDA e : e.line.kind = "note")
        IN  /\ elements = ms \o ns
            /\ IsSubsequence([i \in 1..Len(ms) |-> ms[i].y], MessagePositions)
            /\ IsSubsequence([i \in 1..Len(ns) |-> <<ns[i].y, ns[i].line.text>>], TextPositions)
            /\ Len(SeqBody) = Len(elements)
            /\ \E f \in Permutations1(Len(elements)) :
                  /\ \A k \in 1..Len(elements) : SeqBody[k] = elements[f[k]].line
                  /\ \A k, m \in 1..Len(elements) :
                        k < m => \/ elements[f[k]].y < elements[f[m]].y
                                 \/ elements[f[k]].y = elements[f[m]].y /\ f[k] < f[m]

\* C7 witness: a message and two notes at one vertical position, the second
\* note the text of a group that is no actor and that stands in the document
\* after the text of the first note; they are emitted message, note, note in
\* the order of the document.
C7_Witness ==
    /\ spc = "done"
    /\ Len(elements) = 3
    /\ elements[1].y = elements[2].y /\ elements[2].y = elements[3].y
    /\ elements[1].line.kind = "message"
    /\ elements[2].line.text = <<"remark">>
    /\ elements[3].line.text = <<"Ghost">>
    /\ \E i, j \in 1..Len(textElems) :
          i < j /\ textElems[i].text = <<"remark">> /\ textElems[j] = BadActor.label
    /\ SeqBody = <<elements[1].line, elements[2].line, elements[3].line>>

\* C8: no participant name is on two participant lines, the lines are in
\* non-decreasing order of the recorded horizontal position, and that position
\* (in halves) is the middle of an actor rect of that name.
C8_ParticipantDedup ==
    spc = "done" =>
        /\ \A i, j \in 1..Len(ParticipantLines) :
              ParticipantLines[i] = ParticipantLines[j] => i = j
        /\ Range(ParticipantLines) = Range(DictKeys(participants))
        /\ \A i, j \in 1..Len(ParticipantLines) :
              i < j => DictGet(participants, ParticipantLines[i])
                          <= DictGet(participants, ParticipantLines[j])
        /\ \A n \in Range(ParticipantLines) :
              \E g \in Range(actorGroups) :
                  /\ g.rect.kind = "rect"
                  /\ Strip(g.label.text) = n
                  /\ DictGet(participants, n) = 2 * g.rect.x + g.rect.w

\* C8 witness: Client, Server and Cache recorded at x = 10, 50 and 30 are
\* emitted as Client, Cache, Server.
C8_Witness ==
    /\ spc = "done"
    /\ participants = << [key |-> <<"Client">>, val |-> 20], [key |-> <<"Server">>, val |-> 100],
                         [key |-> <<"Cache">>, val |-> 60] >>
    /\ ParticipantLines = << <<"Client">>, <<"Cache">>, <<"Server">> >>

(***************************************************************************)
(* Properties of the page normalisation                                    *)
(***************************************************************************)
\* The maximal runs of equal characters of s, as a sequence of [ch, n]
RECURSIVE Runs(_)
Runs(s) ==
    IF s = <<>> THEN <<>>
    ELSE LET rest == Runs(Tail(s)) IN
         IF rest # <<>> /\ rest[1].ch = Head(s)
         THEN <<[ch |-> Head(s), n |-> rest[1].n + 1]>> \o Tail(rest)
         ELSE <<[ch |-> Head(s), n |-> 1]>> \o rest

\* The white space among the characters of a page text
PageSpaces == {" ", NL, "#U+00A0"}

\* The part of s from its first to its last character that is no white space
Core(s) ==
    LET I == {i \in 1..Len(s) : s[i] \notin PageSpaces} IN
    IF I = {} THEN <<>>
    ELSE SubSeq(s, CHOOSE i \in I : \A j \in I : i <= j, CHOOSE i \in I : \A j \in I : j <= i)

HasTripleNewline(s) ==
    \E i \in 1..(Len(s) - 2) : s[i] = NL /\ s[i + 1] = NL /\ s[i + 2] = NL

\* C9: the normalisation applied to its own output returns that output.
C9_NormaliseIdempotent ==
    npc = "normalised" => Normalise(markdown) = markdown

\* C9 witness: a page text that the normalisation both strips and collapses.
C9_Witness ==
    /\ npc = "normalised"
    /\ joined # <<>>
    /\ joined[1] = " "
    /\ HasTripleNewline(Core(joined))
    /\ markdown # Core(joined)

\* C10: the page text holds no three consecutive newlines and no leading or
\* trailing white space; between the first and the last character that is no
\* white space, every run of three or more newlines of the joined text has become
\* exactly two and every other character is kept in its place.
C10_CollapsedPage ==
    npc = "normalised" =>
        /\ ~HasTripleNewline(markdown)
        /\ markdown # <<>> => markdown[1] \notin PageSpaces /\ markdown[Len(markdown)] \notin PageSpaces
        /\ LET r == Runs(Core(joined)) IN
             Runs(markdown) = [i \in 1..Len(r) |->
                                  IF r[i].ch = NL /\ r[i].n >= 3 THEN [ch |-> NL, n |-> 2]
                                  ELSE r[i]]

\* C10 witness: 'a\n\n\n\n\nb' has become 'a\n\nb' (with the atom a for both letters).
C10_Witness ==
    /\ npc = "normalised"
    /\ joined = <<"a", NL, NL, NL, NL, NL, "a">>
    /\ markdown = <<"a", NL, NL, "a">>

(***************************************************************************)
(* Properties of process_node                                              *)
(***************************************************************************)
\* The children of a node that process_node is called on while the node is
\* processed: none for a text, a hidden or skipped element and the branches
\* that read the text of their subtree; the children of the li elements for a
\* list; all children otherwise
VisitedChildren(n) ==
    IF \/ n.name \in {"#text", "h1", "h2", "h3", "h4", "h5", "h6", "pre", "img", "hr", "code",
                      "br", "table"} \cup SkippedNames
       \/ IsHidden(n)
    THEN <<>>
    ELSE IF n.name \in {"ul", "ol"} THEN SelectSeq(n.children, LAMBDA c : c.name = "li")
    ELSE n.children

\* The nodes process_node is called on or, for li, whose children it is called on
RECURSIVE VisitedNodes(_)
VisitedNodes(n) == {n} \cup UNION {VisitedNodes(c) : c \in Range(VisitedChildren(n))}

\* The text process_node returns for a node when printf can write
Converted(n) == ProcessNode(n, TRUE).text

\* Processing the node raises inside the try statement
IsFaulty(n) ==
    /\ n.name # "#text" /\ ~IsHidden(n) /\ n.name \notin SkippedNames
    /\ BodyRaises(n, Strip(ProcessChildren(n.children, TRUE).text))

\* The tree with every visited faulty node replaced by a text node that holds
\* the marker
RECURSIVE MarkFaulty(_)
MarkFaulty(n) ==
    IF IsFaulty(n) THEN TextNode(<<"[ERROR_PROCESSING:", n.name, "]">>)
    ELSE [n EXCEPT !.children =
             [i \in 1..Len(n.children) |->
                 IF n.children[i] \in Range(VisitedChildren(n))
                 THEN MarkFaulty(n.children[i]) ELSE n.children[i]]]

\* C11: process_node never raises to its caller; a node whose processing
\* raises yields the marker [ERROR_PROCESSING:name], and the text returned for
\* the whole tree is the text returned for the tree in which each such node is
\* a text node holding its marker: the siblings and ancestors of the node are
\* converted as without the failure.
C11_FaultIsolation ==
    /\ dpc # "raised"
    /\ dpc = "done" =>
          /\ \A n \in VisitedNodes(dom) :
                IsFaulty(n) => Converted(n) = <<"[ERROR_PROCESSING:", n.name, "]">>
          /\ result_md = Converted(MarkFaulty(dom))

\* The svg element of a pre element that line 618 selects, for a pre that has one
SelectedSvg == MermaidSvg(dom)[1]

\* The converter resolves no entity in the selected svg: no node of a flowchart,
\* no participant of a sequence diagram, no transition line of a state diagram
ResolvesNothing ==
    LET d == SelectedSvg.diagram IN
    CASE DiagramKind(SelectedSvg) = "flowchart" ->
            ExtractNodesLoop(d.nodeElems, 1, <<>>, <<>>).nodes = <<>>
      [] DiagramKind(SelectedSvg) = "sequence" ->
            ExtractParticipantsLoop(d.actorGroups, 1, <<>>, {}).participants = <<>>
      [] DiagramKind(SelectedSvg) = "stateDiagram" ->
            LET r == ConvertStatediagram(d.stNodeElems, d.stPathElems, d.stLabelElems)
            IN  ~r.raised /\ Len(r.lines) = 1
      [] OTHER -> FALSE

\* C12: a pre element whose diagram resolves to no entity is emitted as plain
\* fenced code, the converter having returned no output.
C12_EmptyResultSignal ==
    (dpc = "done" /\ dom.name = "pre" /\ MermaidSvg(dom) # <<>> /\ ResolvesNothing)
        => /\ MermaidOutput(dom).text = <<>>
           /\ result_md = FencedCode(dom)

\* C13: a pre element whose selected svg is a class diagram is emitted as plain
\* fenced code, neither as a mermaid block nor as an error marker.
C13_ClassFallback ==
    (dpc = "done" /\ dom.name = "pre" /\ MermaidSvg(dom) # <<>>
     /\ DiagramKind(SelectedSvg) = "class")
        => /\ MermaidOutput(dom).text = <<>>
           /\ result_md = FencedCode(dom)

\* The svg elements of the pre element whose id starts with mermaid- and whose
\* role description holds one of the four words
DiagramSvgs ==
    SelectSeq(Descendants(dom),
              LAMBDA c : /\ c.name = "svg" /\ c.id # Absent /\ StartsWith(c.id, <<"mermaid-">>)
                         /\ \/ IsSubstring(<<"flowchart">>, AttrOr(c.role))
                            \/ IsSubstring(<<"class">>, AttrOr(c.role))
                            \/ IsSubstring(<<"sequence">>, AttrOr(c.role))
                            \/ IsSubstring(<<"state", "Diagram">>, AttrOr(c.role)))

\* What process_node returns for a pre element when it hands the svg to the
\* converter that matches the role description of the svg
DispatchedResult(svg) ==
    LET r == MermaidOutput(Node("pre", <<svg>>)) IN
    IF r.raised THEN <<"[ERROR_PROCESSING:", "pre", "]">>
    ELSE IF r.text # <<>> THEN <<NL>> \o r.text \o <<NL, NL>>
    ELSE FencedCode(dom)

\* C15: a pre element that holds an svg with the mermaid- id and a role
\* description of one of the four kinds is handed to the matching converter;
\* every other pre element is emitted as fenced code.
C15_DiagramDispatch ==
    (dpc = "done" /\ dom.name = "pre") =>
        IF DiagramSvgs = <<>> THEN result_md = FencedCode(dom)
        ELSE \E i \in 1..Len(DiagramSvgs) : result_md = DispatchedResult(DiagramSvgs[i])

(***************************************************************************)
(* Properties of convert_statediagram_svg_to_mermaid_text                  *)
(***************************************************************************)
\* The shapes whose geometry can be read
SoundStNodes ==
    SelectSeq(stNodeElems, LAMBDA n : ~StateOfNode(n).raised /\ n.transform.kind = "translate")
SoundStPaths == SelectSeq(stPathElems, LAMBDA q : PathCoords(q.d) # <<>>)
SoundStLabels == SelectSeq(stLabelElems, LAMBDA l : l.transform.kind \in {"translate", "none"})

\* C14: the converter ends without raising, and its lines are those of the
\* diagram without the shapes whose geometry cannot be read.
C14_PerShapeIsolation ==
    stpc \in {"raised", "done"} =>
        /\ stpc = "done"
        /\ mermaid_lines = ConvertStatediagram(SoundStNodes, SoundStPaths, SoundStLabels).lines

(***************************************************************************)
(* Properties of successive calls                                          *)
(***************************************************************************)
\* C16: the result of a call depends on its argument only.  Whatever calls
\* came before and whatever they left in the locals, when a converter has
\* returned, the list it emitted is the one the function computes from the
\* elements of its argument alone, a sequence diagram without participants
\* gives the fixed sentence, a state diagram raises exactly when its own
\* shapes make it raise, the text process_node returned is the one computed
\* from the node alone, and process_node raised only for a node on which it
\* raises by itself.
C16_Stateless ==
    /\ fpc = "done" => mermaid = FlowchartLines(nodeElems, clusterElems, linkPaths)
    /\ spc = "done" => seq_mermaid = SequenceLines(actorGroups, textElems, msgElems)
    /\ spc = "no_participants" =>
          ExtractParticipantsLoop(actorGroups, 1, <<>>, {}).participants = <<>>
    /\ stpc = "done" =>
          LET r == ConvertStatediagram(stNodeElems, stPathElems, stLabelElems)
          IN  ~r.raised /\ mermaid_lines = r.lines
    /\ stpc = "raised" => ConvertStatediagram(stNodeElems, stPathElems, stLabelElems).raised
    /\ dpc = "done" => result_md = Converted(dom)
    /\ dpc = "raised" => ProcessNode(dom, FALSE).raised

\* Every converter has returned, the state converter and the sequence
\* converter each for the second time at least: the lists of their earlier
\* calls are still there after a call that emitted nothing; process_node is
\* called for an element whose branch binds no text while result_md holds the
\* text of the call before
C16_Witness ==
    /\ fpc = "done" /\ nodeElems = OtherFlowDiagram.nodeElems /\ Len(mermaid) > 1
    /\ spc = "no_participants" /\ Len(seq_mermaid) > 1
    /\ stpc = "raised" /\ Len(mermaid_lines) > 1
    /\ dpc = "start" /\ dom = Node("img", <<>>) /\ result_md # <<>>

(***************************************************************************)
(* Properties of the cluster hierarchy and of the edge section of          *)
(* convert_flowchart_svg_to_mermaid_text                                   *)
(***************************************************************************)
\* The clusters reached from cluster cid along at most depth children lists
RECURSIVE ClusterDescendants(_, _)
ClusterDescendants(cid, depth) ==
    IF depth = 0 THEN {}
    ELSE LET ch == Range(DictGet(clusters, cid).children) IN
         ch \cup UNION {ClusterDescendants(c, depth - 1) : c \in ch}

\* The other clusters from which cluster cid is reached along children lists
ClusterAncestors(cid) ==
    {a \in ClusterIds \ {cid} : cid \in ClusterDescendants(a, Len(clusters))}

MembersOf(cid) == Range(DictGet(clusters, cid).nodes)

ParentsOf(cid) == {a \in ClusterIds : cid \in Range(DictGet(clusters, a).children)}

SubgraphLines(cid) ==
    {k \in 1..Len(mermaid) : mermaid[k].kind = "subgraph" /\ mermaid[k].id = cid}

\* C17: after the assignment, every node element whose position lies in the
\* rectangle of at least one cluster is a member of a cluster of smallest
\* area among those whose rectangle holds it, and of none of the ancestors
\* of that cluster.
C17_InnermostWins ==
    fpc \in {"assigned", "edges", "done"} =>
        \A i \in FlowNodeElems :
            LET holding == {c \in ClusterIds : PosInCluster(i, c)}
                n == DictGet(id_map, nodeElems[i].id)
            IN  holding # {} =>
                  \E s \in holding :
                      /\ \A c \in holding : Area(RectOf(s)) <= Area(RectOf(c))
                      /\ n \in MembersOf(s)
                      /\ \A a \in ClusterAncestors(s) : n \notin MembersOf(a)

\* C18: in the emitted flowchart every extracted cluster has exactly one
\* 'subgraph' line, and every cluster is the child of at most one cluster.
C18_ClusterEmittedOnce ==
    fpc = "done" =>
        \A c \in ClusterIds :
            /\ Cardinality(SubgraphLines(c)) = 1
            /\ Cardinality(ParentsOf(c)) <= 1

\* C19: a cluster recorded as child of another lies in the rectangle of that
\* cluster and has another rectangle, and no cluster is its own child or the
\* child of one of its children.
C19_StrictContainment ==
    fpc \in {"nested", "assigned", "edges", "done"} =>
        \A a \in ClusterIds : \A b \in Range(DictGet(clusters, a).children) :
            /\ BoxHoldsProperly(RectOf(a), RectOf(b))
            /\ a # b
            /\ a \notin Range(DictGet(clusters, b).children)

\* The edge section of the emitted flowchart for the paths in the order f
EdgeSectionOf(f) ==
    EdgeLines(ResolveEdgesLoop([k \in 1..Len(linkPaths) |-> linkPaths[f[k]]], nodes, 1))

\* C20: in the emitted flowchart the edge lines come after every subgraph,
\* node and end line, they ascend strictly in the order of Python strings,
\* so none occurs twice, and every order of the path elements gives the
\* same edge section, which closes the emitted list.
C20_EdgeSection ==
    fpc = "done" =>
        /\ \A k \in EdgeLineIdx : \A j \in 1..Len(mermaid) :
              mermaid[j].kind \in {"header", "subgraph", "node", "end", "blank"} => j < k
        /\ \A k, m \in EdgeLineIdx :
              k < m => LexLess(FlowLineText(mermaid[k]), FlowLineText(mermaid[m]))
        /\ \A f \in Permutations1(Len(linkPaths)) :
              LET sec == EdgeSectionOf(f) IN
              /\ Len(sec) <= Len(mermaid)
              /\ SubSeq(mermaid, Len(mermaid) - Len(sec) + 1, Len(mermaid)) = sec

\* C20 witness: two paths resolve to two edges, the one found first being the
\* greater line; both lines are emitted, the smaller one first.
C20_Witness ==
    /\ fpc = "done"
    /\ Len(edges) = 2
    /\ LexLess(EdgeLine(edges[2]), EdgeLine(edges[1]))
    /\ Cardinality(EdgeLineIdx) = 2
    /\ \E k \in EdgeLineIdx :
          /\ k + 1 \in EdgeLineIdx
          /\ FlowLineText(mermaid[k]) = EdgeLine(edges[2])
          /\ FlowLineText(mermaid[k + 1]) = EdgeLine(edges[1])

\* The clusters that add_cluster is called for: the top-level clusters and
\* what is reached from them along children lists
EmittedClusters ==
    UNION {{t} \cup ClusterDescendants(t, Len(clusters))
           : t \in Range(TopLevelClusters(clusters))}

\* C28: once the children lists are built, no cluster that add_cluster is
\* called for is reached from itself along children lists, so the recursion
\* of add_cluster ends; the emitted list then opens and closes a block for
\* each call and the function returns.
C28_EmissionTerminates ==
    /\ fpc \in {"nested", "assigned", "edges", "done"} =>
          \A c \in EmittedClusters : c \notin ClusterDescendants(c, Len(clusters))
    /\ fpc = "done" =>
          /\ mermaid[1].kind = "header"
          /\ Cardinality({k \in 1..Len(mermaid) : mermaid[k].kind = "subgraph"})
               = Cardinality({k \in 1..Len(mermaid) : mermaid[k].kind = "end"})

\* C28 witness: two clusters with the same rectangle, each the child of the
\* other, inside a third one; the function has returned, with the block of
\* the third cluster only.
C28_Witness ==
    /\ fpc = "done"
    /\ \E a, b, c \in ClusterIds :
          /\ a # b
          /\ RectOf(a) = RectOf(b)
          /\ a \in ClusterDescendants(a, Len(clusters))
          /\ BoxHoldsProperly(RectOf(c), RectOf(a))
          /\ Range(TopLevelClusters(clusters)) = {c}
          /\ SubgraphLines(c) # {}
          /\ SubgraphLines(a) = {}

(***************************************************************************)
(* Properties of the participants and labels of                            *)
(* convert_sequence_svg_to_mermaid_text                                    *)
(***************************************************************************)
\* The indices of the actor groups that name participant n and whose rect
\* has numeric geometry
ShapesOf(n) ==
    {i \in 1..Len(actorGroups) :
        actorGroups[i].rect.kind = "rect" /\ Strip(actorGroups[i].label.text) = n}

\* C21: the horizontal position recorded for a participant name is the
\* middle of the first actor shape of that name in document order.
C21_FirstOccurrence ==
    spc \in {"participants", "texts", "messages", "notes", "done"} =>
        \A p \in Range(participants) :
            /\ ShapesOf(p.key) # {}
            /\ LET first == CHOOSE i \in ShapesOf(p.key) : \A j \in ShapesOf(p.key) : i <= j
               IN  p.val = ActorX(actorGroups[first].rect)

\* C22: after the notes are made, the emitted elements and the parsed labels
\* that name no participant match one to one: a label in used_texts is the
\* text of one message, any other label is the text of one note at the
\* height of the label over the participant nearest to it.
C22_LabelConsumption ==
    spc \in {"notes", "done"} =>
        /\ Len(elements) = Len(texts)
        /\ \E f \in Permutations1(Len(texts)) :
              \A i \in 1..Len(texts) :
                  LET e == elements[f[i]] IN
                  /\ e.line.text = texts[i].text
                  /\ texts[i].element \in used_texts => e.line.kind = "message"
                  /\ texts[i].element \notin used_texts =>
                        /\ e.line.kind = "note"
                        /\ e.y = 2 * texts[i].y
                        /\ e.line.a = FindActor(participants, texts[i].x)

\* The messages whose coordinates are read
ParsableMsgs == {i \in 1..Len(msgElems) : msgElems[i].kind = "ok"}

MessageElements == {k \in 1..Len(elements) : elements[k].line.kind = "message"}

Min(a, b) == IF a <= b THEN a ELSE b

\* C29: after the notes are made, the number of message elements is the
\* smaller of the number of messages with readable coordinates and the
\* number of parsed labels that name no participant, and messages and notes
\* together are as many as those labels.
C29_MessageCount ==
    spc \in {"notes", "done"} =>
        /\ Cardinality(MessageElements) = Min(Cardinality(ParsableMsgs), Len(texts))
        /\ Len(elements) = Len(texts)

(***************************************************************************)
(* Properties of the lines and labels of                                   *)
(* convert_statediagram_svg_to_mermaid_text                                *)
(***************************************************************************)
\* The matched edges with a source and a target, in order
EmittedEdges == SelectSeq(matched_edges, LAMBDA e : Truthy(e.from) /\ Truthy(e.to))

\* The line the emission rules give for a matched edge
RuleLine(e) ==
    LET label == IF Truthy(e.label) THEN <<" : ">> \o e.label ELSE <<>>
        source == IF e.from = <<"start">> THEN <<"[*]">> ELSE e.from
        target == IF e.from # <<"start">> /\ e.to = <<"end">> THEN <<"[*]">> ELSE e.to
    IN  <<"    ">> \o source \o <<" --> ">> \o target \o label

\* C23: the emitted lines after the header are the lines of the matched
\* transitions in order, '[*] --> target' for a source start, 'source --> [*]'
\* for a target end, 'source --> target' otherwise, with ' : label' for a
\* label, and no line holds the name start or end of a pseudo-state.
C23_StateEmission ==
    stpc = "done" =>
        /\ Len(mermaid_lines) = 1 + Len(EmittedEdges)
        /\ \A k \in 1..Len(EmittedEdges) : mermaid_lines[k + 1] = RuleLine(EmittedEdges[k])
        /\ \A k \in 2..Len(mermaid_lines) :
              "start" \notin Range(mermaid_lines[k]) /\ "end" \notin Range(mermaid_lines[k])

\* Twice the position of a label; a label without transform lies at (0, 0)
LabelPos2(l) ==
    IF l.transform.kind = "translate" THEN <<2 * l.transform.x, 2 * l.transform.y>>
    ELSE <<0, 0>>

\* Twice the middle of the path of edge i
EdgeMid2(i) ==
    <<edge_data[i].start[1] + edge_data[i].end[1], edge_data[i].start[2] + edge_data[i].end[2]>>

HasMid(i) == edge_data[i].start # <<>> /\ edge_data[i].end # <<>>

\* Label j lies within the threshold of 80 of the middle of edge i
WithinThreshold(i, j) ==
    /\ HasMid(i)
    /\ Abs(LabelPos2(stLabelElems[j])[1] - EdgeMid2(i)[1]) < 160
    /\ Abs(LabelPos2(stLabelElems[j])[2] - EdgeMid2(i)[2]) < 160

\* Four times the squared distance between label j and the middle of edge i
LabelDist(i, j) ==
    LET dx == LabelPos2(stLabelElems[j])[1] - EdgeMid2(i)[1]
        dy == LabelPos2(stLabelElems[j])[2] - EdgeMid2(i)[2]
    IN  dx * dx + dy * dy

\* Edge i carries the text of label j
Attached(i, j) ==
    /\ WithinThreshold(i, j)
    /\ stLabelElems[j].p # Absent
    /\ edge_data[i].label = Strip(stLabelElems[j].p)

\* C24: after the paths are collected, every label is attached to at most
\* one transition, that transition is the one whose middle is closest to the
\* label, and a transition without a label within the threshold has no label.
C24_LabelAssociation ==
    stpc \in {"edges", "matched", "done"} =>
        /\ \A j \in 1..Len(stLabelElems) :
              /\ Cardinality({i \in 1..Len(edge_data) : Attached(i, j)}) <= 1
              /\ \A i \in 1..Len(edge_data) :
                    Attached(i, j) =>
                        \A m \in 1..Len(edge_data) :
                            HasMid(m) => LabelDist(i, j) <= LabelDist(m, j)
        /\ \A i \in 1..Len(edge_data) :
              (\A j \in 1..Len(stLabelElems) : ~WithinThreshold(i, j)) =>
                  edge_data[i].label = Absent

(***************************************************************************)
(* Properties of the lists and of the hidden elements of process_node      *)
(***************************************************************************)
\* The contents of the direct li children of the list that are not empty
ItemContents ==
    LET lis == SelectSeq(dom.children, LAMBDA c : c.name = "li")
    IN  SelectSeq([i \in 1..Len(lis) |-> Strip(ProcessChildren(lis[i].children, TRUE).text)],
                  LAMBDA c : c # <<>>)

\* C25: the text returned for an ol element is its items that are not empty,
\* numbered 1, 2, ..., k in order, one on a line.
C25_OlNumbering ==
    (dpc = "done" /\ dom.name = "ol") =>
        result_md = IF ItemContents = <<>> THEN <<>>
                    ELSE Join([k \in 1..Len(ItemContents) |->
                                  Decimal(k) \o <<".", " ">> \o ItemContents[k]], NL)
                         \o <<NL, NL>>

\* The number of places of the sequence s that hold the atom a
Occurrences(a, s) == Cardinality({k \in 1..Len(s) : s[k] = a})

\* The atoms of the texts that stand directly in a li element of the tree
ItemAtoms ==
    UNION {UNION {Range(c.string) : c \in {d \in Range(li.children) : d.name = "#text"}}
           : li \in Range(FindAll(dom, {"li"}))} \ {" ", NL}

\* The atoms of all texts of the tree, one after the other
TreeAtoms == GetText(dom, FALSE)

\* The atoms of the attributes of the tree that reach the returned text
AttrAtoms ==
    UNION {Range(AttrOr(n.href)) \cup Range(AttrOr(n.src)) \cup Range(AttrOr(n.alt))
           : n \in Range(Descendants(dom))}

\* The marks an item line can begin with: the star, or a number up to the
\* number of children of the list
ItemMarks ==
    {<<"*", " ">>} \cup {Decimal(d) \o <<".", " ">> : d \in 1..Len(dom.children)}

\* The text t is the item lines of the contents from the k-th on, each a
\* mark and the content, with a newline between two lines and two newlines
\* at the end
RECURSIVE ItemLinesFrom(_, _)
ItemLinesFrom(k, t) ==
    \E m \in ItemMarks :
        LET line == m \o ItemContents[k] IN
        /\ StartsWith(t, line)
        /\ IF k = Len(ItemContents) THEN t = line \o <<NL, NL>>
           ELSE /\ Len(t) > Len(line)
                /\ t[Len(line) + 1] = NL
                /\ ItemLinesFrom(k + 1, SubSeq(t, Len(line) + 2, Len(t)))

\* C26: the text returned for a ul or ol element is one item line for each
\* direct li child that has content, in order, and an item text that stands
\* once in the tree, at whatever depth of nested lists, stands once in the
\* returned text.
C26_NestedListsOnce ==
    (dpc = "done" /\ dom.name \in {"ul", "ol"}) =>
        /\ IF ItemContents = <<>> THEN result_md = <<>> ELSE ItemLinesFrom(1, result_md)
        /\ \A a \in ItemAtoms \ AttrAtoms :
              Occurrences(a, TreeAtoms) = 1 => Occurrences(a, result_md) = 1

\* The inline style of the element declares display none or visibility
\* hidden, with or without a blank after the colon
DeclaresHidden(n) ==
    \E st \in { <<"display", ":", " ", "none">>, <<"display", ":", "none">>,
                 <<"visibility", ":", " ", "hidden">>, <<"visibility", ":", "hidden">> } :
        IsSubstring(st, AttrOr(n.style))

\* The element is hidden or its kind is in the list of line 578
EmitsNothing(n) == n.name # "#text" /\ (DeclaresHidden(n) \/ n.name \in SkippedNames)

\* The tree without the elements that emit nothing
RECURSIVE Pruned(_)
Pruned(n) ==
    LET kept == SelectSeq(n.children, LAMBDA c : ~EmitsNothing(c))
    IN  [n EXCEPT !.children = [i \in 1..Len(kept) |-> Pruned(kept[i])]]

\* C27: the text returned for a hidden element and for an element of a
\* skipped kind is empty, and the text returned for a tree is the text
\* returned for the tree without such elements: nothing of them or of their
\* descendants reaches the output.
C27_HiddenEmitNothing ==
    dpc = "done" =>
        result_md = IF EmitsNothing(dom) THEN <<>> ELSE Converted(Pruned(dom))

(***************************************************************************)
(* Properties of the browser handle of deepwiki2markdown                   *)
(***************************************************************************)
\* C30: driver.quit() is never called twice, no exception leaves the
\* function, after an exception is caught nothing but the finally clause
\* runs and no later page is saved, and every execution reaches the return
\* with driver.quit() called once.
C30_DriverReleased ==
    /\ [](/\ quits <= 1
          /\ ~propagated
          /\ caught # "none" => /\ wpc \in {"finally", "returned"}
                                /\ \A k \in saved : k <= page)
    /\ <>(wpc = "returned" /\ quits = 1)
====
